---- MODULE Spec2Model ----
(***************************************************************************)
(* A model of the PyTractive client library: the rate limiter, the HTTP   *)
(* response classification, the response cache, the session/auth manager  *)
(* and the location resolver / device status operations of TractiveClient.*)
(* Each component has its own specification over the shared variables;    *)
(* the variables of the other components stay at their initial values.    *)
(***************************************************************************)
EXTENDS Integers, Sequences, FiniteSets, TLC

VARIABLES
    \* ---- RateLimiter (utils.py) ----
    limiter,     \* the RateLimiter object: calls_per_minute, calls
    rl_clock,    \* time.time() as the limiter's caller sees it, in seconds
    released,    \* history: the times at which wait_if_needed returned
    \* ---- HTTPClient._handle_response (http_client.py) ----
    response,    \* the wire response handed to _handle_response
    outcome,     \* what _handle_response returned or raised
    \* ---- TractiveClient / AsyncTractiveClient (client.py) ----
    client,      \* the client object: tokens, ids, cache, last results, stats
    config,      \* the TractiveConfig of the client
    phase,       \* "new" before construction, then "ready" or "failed"
    clock,       \* time.time() as the client sees it, in seconds
    token_file,  \* the content of the access token file
    issued,      \* the last token the server issued
    rejected,    \* history: tokens whose validation call was answered 401
    last_op,     \* history: the last operation, its result, requests, callbacks
    ops,         \* history: the number of operations since construction
    csv_file,    \* the CSV file export_gps_data reads and writes
    \* ---- TractiveBLEClient (bluetooth.py) ----
    ble          \* the radio client, its backend and its pending connects

rlVars     == <<limiter, rl_clock, released>>
httpVars   == <<response, outcome>>
clientVars == <<client, config, phase, clock, token_file, issued, rejected,
                last_op, ops, csv_file, ble>>

-----------------------------------------------------------------------------
(* Generic helpers *)

RECURSIVE SeqSum(_)
SeqSum(s) == IF s = <<>> THEN 0 ELSE s[1] + SeqSum(Tail(s))

Max(a, b) == IF a >= b THEN a ELSE b

\* A JSON object is a record; a JSON list is the record of its items
EmptyObject == <<>>
JsonList(seq) == [items |-> seq]

\* Python truthiness of a parsed body: {} and [] are false
Falsy(v) == v = EmptyObject \/ ("items" \in DOMAIN v /\ v.items = <<>>)

\* dict.get(key, default)
Get(d, key, default) == IF key \in DOMAIN d THEN d[key] ELSE default

-----------------------------------------------------------------------------
(***************************************************************************)
(* RateLimiter                                                             *)
(***************************************************************************)

\* Bounds of the rate limiter model
MaxCeiling == 2      \* ceilings 1..MaxCeiling are tried
MaxCalls   == 5      \* invocations of wait_if_needed per behaviour
MaxTime    == 120    \* callers arrive no later than this
TickStep   == 20     \* granularity of the time between two invocations

\* The rolling window of wait_if_needed, in seconds
Window == 60

\* RateLimiter.__init__
NewLimiter(n) == [calls_per_minute |-> n, calls |-> <<>>]

\* "Remove calls older than 1 minute"
PruneCalls(cs, now) == SelectSeq(cs, LAMBDA call_time : now - call_time < Window)

\* The time slept by one invocation entered at `now` with the pruned list cs
SleepTime(cs, now, ceiling) ==
    IF Len(cs) >= ceiling
    THEN Max(Window - (now - cs[1]), 0)
    ELSE 0

\* The timestamp wait_if_needed records for the call: the time of entry
RecordedTime(now, wake) == now

\* RateLimiter.wait_if_needed, from entry to return (the sleep included)
wait_if_needed ==
    /\ Len(released) < MaxCalls
    /\ LET now    == rl_clock
           pruned == PruneCalls(limiter.calls, now)
           wake   == now + SleepTime(pruned, now, limiter.calls_per_minute)
       IN /\ limiter' = [limiter EXCEPT
                           !.calls = Append(pruned, RecordedTime(now, wake))]
          /\ rl_clock' = wake
          /\ released' = Append(released, wake)
    /\ UNCHANGED <<httpVars, clientVars>>

\* Time passes between two invocations of the single caller
Tick ==
    /\ rl_clock + TickStep <= MaxTime
    /\ rl_clock' = rl_clock + TickStep
    /\ UNCHANGED <<limiter, released>>
    /\ UNCHANGED <<httpVars, clientVars>>

RLNext == wait_if_needed \/ Tick

-----------------------------------------------------------------------------
(***************************************************************************)
(* HTTPClient._handle_response                                             *)
(***************************************************************************)

\* Header values and bodies are sequences of characters
Digits == {"0", "1", "2", "3", "4", "5", "6", "7", "8", "9"}

DigitValue(c) ==
    CASE c = "0" -> 0 [] c = "1" -> 1 [] c = "2" -> 2 [] c = "3" -> 3
      [] c = "4" -> 4 [] c = "5" -> 5 [] c = "6" -> 6 [] c = "7" -> 7
      [] c = "8" -> 8 [] c = "9" -> 9

RECURSIVE DigitsValue(_)
DigitsValue(s) ==
    IF s = <<>> THEN 0
    ELSE 10 * DigitsValue(SubSeq(s, 1, Len(s) - 1)) + DigitValue(s[Len(s)])

AllDigits(s) == s # <<>> /\ \A i \in 1..Len(s) : s[i] \in Digits

\* int(text): an optional sign followed by decimal digits, ValueError otherwise
IntParses(s) ==
    \/ AllDigits(s)
    \/ Len(s) >= 2 /\ s[1] \in {"+", "-"} /\ AllDigits(Tail(s))

IntValue(s) ==
    IF s[1] = "-" THEN 0 - DigitsValue(Tail(s))
    ELSE IF s[1] = "+" THEN DigitsValue(Tail(s))
    ELSE DigitsValue(s)

\* The Retry-After headers tried: absent, "30", "120", "abc", "", "-5", "7x"
NoHeader == <<"absent">>
RetryAfterHeaders ==
    { NoHeader, <<"3", "0">>, <<"1", "2", "0">>, <<"a", "b", "c">>, <<>>,
      <<"-", "5">>, <<"7", "x">> }

\* The status codes tried
StatusCodes == {200, 201, 204, 299, 300, 304, 400, 401, 403, 404, 429, 500,
                503}

\* A body is empty, text that is not JSON, or JSON with its parsed value
EmptyBody   == [kind |-> "empty"]
TextBody    == [kind |-> "text"]
JsonBody(v) == [kind |-> "json", value |-> v]

\* The bodies tried by the classification model
Bodies == { EmptyBody, TextBody, JsonBody([status |-> "success"]),
            JsonBody(JsonList(<<[_id |-> "tracker123"]>>)) }

Responses ==
    [status_code : StatusCodes, retry_after : RetryAfterHeaders, body : Bodies]

NoOutcome == [kind |-> "none", status_code |-> -1, wait_time |-> -1, data |-> <<>>]

\* The response of an idle transport
IdleResponse ==
    [status_code |-> 200, retry_after |-> NoHeader, body |-> EmptyBody]

\* requests.Response.ok: raise_for_status() raises for 400 <= status < 600 only
ResponseOk(status_code) == ~(400 <= status_code /\ status_code < 600)

\* response.headers.get('Retry-After', '60') followed by int(), ValueError -> 60
RetryAfterSeconds(header) ==
    LET retry_after == IF header = NoHeader THEN <<"6", "0">> ELSE header
    IN IF IntParses(retry_after) THEN IntValue(retry_after) ELSE 60

Raised(kind, status_code, wait_time) ==
    [kind |-> kind, status_code |-> status_code, wait_time |-> wait_time,
     data |-> <<>>]

Returned(data) ==
    [kind |-> "ok", status_code |-> -1, wait_time |-> -1, data |-> data]

\* HTTPClient._handle_response
HandleResponse(r) ==
    IF r.status_code = 401 THEN Raised("AuthenticationError", -1, -1)
    ELSE IF r.status_code = 429
         THEN Raised("APIError", 429, RetryAfterSeconds(r.retry_after))
    ELSE IF ~ResponseOk(r.status_code)
         THEN Raised("APIError", r.status_code, -1)
    ELSE IF r.body.kind = "empty" THEN Returned(EmptyObject)
    ELSE IF r.body.kind = "text" THEN Raised("APIError", -1, -1)
    ELSE Returned(r.body.value)

\* What aiohttp's response.json() gives for an empty body: None
NoneValue == [t |-> "null"]

\* AsyncHTTPClient._handle_response: content_length is 0 only when the length
\* of an empty body is known; response.json() raises ContentTypeError unless
\* the answer is declared as JSON
AsyncHandleResponse(r, length_known, declared_json) ==
    IF r.status_code = 401 THEN Raised("AuthenticationError", -1, -1)
    ELSE IF r.status_code = 429 THEN Raised("APIError", 429, -1)
    ELSE IF ~(200 <= r.status_code /\ r.status_code < 300)
         THEN Raised("APIError", r.status_code, -1)
    ELSE IF r.body.kind = "empty" /\ length_known THEN Returned(EmptyObject)
    ELSE IF ~declared_json THEN Raised("APIError", -1, -1)
    ELSE IF r.body.kind = "empty" THEN Returned(NoneValue)
    ELSE IF r.body.kind = "text" THEN Raised("APIError", -1, -1)
    ELSE Returned(r.body.value)

\* One response arrives and is classified
handle_response ==
    /\ outcome = NoOutcome
    /\ outcome' = HandleResponse(response)
    /\ UNCHANGED response
    /\ UNCHANGED <<rlVars, clientVars>>

\* The next response of the session arrives
next_response ==
    /\ outcome # NoOutcome
    /\ response' \in Responses
    /\ outcome' = NoOutcome
    /\ UNCHANGED <<rlVars, clientVars>>

HTTPNext == handle_response \/ next_response

-----------------------------------------------------------------------------
(***************************************************************************)
(* Data models (models.py)                                                 *)
(***************************************************************************)

\* A JSON value in a numeric field: a number, a string (its characters), null
Num(v)  == [t |-> "num", v |-> v]
Str(cs) == [t |-> "str", s |-> cs]
Null    == [t |-> "null"]

Converted(v) == [err |-> "none", v |-> v]
Failed(e)    == [err |-> e, v |-> 0]

\* float(x) and int(x) on a JSON value: a number converts, a string is parsed
\* (ValueError when it is not a number), None raises TypeError.  Numbers in
\* the model are integers.
ToNumber(x) ==
    IF x.t = "num" THEN Converted(x.v)
    ELSE IF x.t = "str"
         THEN IF IntParses(x.s) THEN Converted(IntValue(x.s))
              ELSE Failed("ValueError")
    ELSE Failed("TypeError")

\* The first failure of a sequence of conversions, "none" if all succeed
RECURSIVE FirstError(_)
FirstError(cs) ==
    IF cs = <<>> THEN "none"
    ELSE IF cs[1].err # "none" THEN cs[1].err
    ELSE FirstError(Tail(cs))

NoFix == <<>>

\* GPSLocation.__post_init__
ValidGPSLocation(latitude, longitude, uncertainty) ==
    /\ -90 <= latitude /\ latitude <= 90
    /\ -180 <= longitude /\ longitude <= 180
    /\ uncertainty >= 0

\* data.get("latlong", [0.0, 0.0])
LatLongOf(data) == Get(data, "latlong", <<Num(0), Num(0)>>)

\* GPSLocation.from_api_data: the fix, or the exception it raises
FromApiData(data) ==
    IF "items" \in DOMAIN data
    THEN [err |-> "AttributeError", fix |-> NoFix]
    ELSE
    LET latlong == LatLongOf(data)
    IN IF latlong = <<>> \/ Len(latlong) < 2
       THEN [err |-> "ValueError", fix |-> NoFix]
       ELSE
       LET lat    == ToNumber(latlong[1])
           lon    == ToNumber(latlong[2])
           time   == ToNumber(Get(data, "time", Num(0)))
           unc    == ToNumber(Get(data, "pos_uncertainty", Num(0)))
           alt    == ToNumber(Get(data, "altitude", Get(data, "alt", Num(0))))
           speed  == ToNumber(Get(data, "speed", Num(0)))
           course == ToNumber(Get(data, "course", Num(0)))
           e      == FirstError(<<lat, lon, time, unc, alt, speed, course>>)
       IN IF e # "none" THEN [err |-> e, fix |-> NoFix]
          ELSE IF ~ValidGPSLocation(lat.v, lon.v, unc.v)
               THEN [err |-> "ValueError", fix |-> NoFix]
          ELSE [err |-> "none",
                fix |-> [latitude |-> lat.v, longitude |-> lon.v,
                         timestamp |-> time.v, uncertainty |-> unc.v,
                         altitude |-> alt.v, speed |-> speed.v,
                         course |-> course.v]]

\* str.lower() on the strings the model uses
Lower(str) ==
    CASE str = "NORMAL" -> "normal"
      [] str = "HOT" -> "hot"
      [] str = "COLD" -> "cold"
      [] str = "ACTIVE" -> "active"
      [] str = "INACTIVE" -> "inactive"
      [] str = "OPERATIONAL" -> "operational"
      [] str = "UNKNOWN" -> "unknown"
      [] str = "ERROR" -> "error"
      [] str = "Warning" -> "warning"
      [] OTHER -> str

\* TemperatureState.from_string
TemperatureStateFromString(value) ==
    IF Lower(value) \in {"normal", "hot", "cold", "unknown"}
    THEN Lower(value) ELSE "unknown"

\* DeviceState.from_string: the exact value first, then its lower case
DeviceStates == {"active", "inactive", "OPERATIONAL", "unknown"}

DeviceStateFromString(value) ==
    IF value \in DeviceStates THEN value
    ELSE IF Lower(value) \in DeviceStates THEN Lower(value)
    ELSE "unknown"

NoStatus == <<>>

\* DeviceStatus.__post_init__
ValidDeviceStatus(battery_level, timestamp) ==
    /\ 0 <= battery_level /\ battery_level <= 100
    /\ timestamp >= 0

\* DeviceStatus(...) with the defaults of the dataclass
NewDeviceStatus(battery_level, hardware_status, timestamp, temperature_state, state, battery_save_mode) ==
    IF ~ValidDeviceStatus(battery_level, timestamp)
    THEN [err |-> "ValueError", status |-> NoStatus]
    ELSE [err |-> "none",
          status |-> [battery_level |-> battery_level,
                      hardware_status |-> hardware_status,
                      timestamp |-> timestamp,
                      temperature_state |-> temperature_state,
                      state |-> state,
                      battery_save_mode |-> battery_save_mode]]

\* DeviceStatus.from_api_data
StatusFromApiData(tracker_data, hw_data) ==
    NewDeviceStatus(Get(hw_data, "battery_level", 0),
                    Get(hw_data, "hw_status", "unknown"),
                    Get(hw_data, "time", 0),
                    TemperatureStateFromString(
                        Get(hw_data, "temperature_state", "unknown")),
                    DeviceStateFromString(Get(tracker_data, "state", "unknown")),
                    Get(tracker_data, "battery_save_mode", FALSE))

\* DeviceStatus.is_low_battery
LowBatteryLevel == 20
is_low_battery(status) == status.battery_level < LowBatteryLevel

\* DeviceStatus.is_critical_battery
CriticalBatteryLevel == 10
is_critical_battery(status) == status.battery_level < CriticalBatteryLevel

\* BatteryState.from_level
BatteryStateFromLevel(level) ==
    IF level >= 80 THEN "excellent"
    ELSE IF level >= 60 THEN "good"
    ELSE IF level >= 40 THEN "fair"
    ELSE IF level >= 20 THEN "low"
    ELSE "critical"

\* DeviceStatus.battery_state
battery_state(status) == BatteryStateFromLevel(status.battery_level)

\* An attention flag that looks at everything but the battery
needs_attention_but_battery(status) ==
    \/ status.temperature_state \in {"hot", "cold"}
    \/ status.state # "active"
    \/ /\ status.hardware_status # ""
       /\ Lower(status.hardware_status) \in {"error", "fault", "warning"}

\* DeviceStatus.needs_attention
needs_attention(status) ==
    \/ is_low_battery(status)
    \/ status.temperature_state \in {"hot", "cold"}
    \/ status.state # "active"
    \/ /\ status.hardware_status # ""
       /\ Lower(status.hardware_status) \in {"error", "fault", "warning"}

\* The derived views of a status, as to_dict and the properties report them
Views(status) ==
    [status |-> status,
     is_low_battery |-> is_low_battery(status),
     is_critical_battery |-> is_critical_battery(status),
     battery_state |-> battery_state(status),
     needs_attention |-> needs_attention(status)]

-----------------------------------------------------------------------------
(***************************************************************************)
(* TractiveClient: configuration, clock and response cache (client.py)     *)
(***************************************************************************)

\* Bounds of the client model
MaxFallbackHours == 2     \* the configured max_gps_fallback_hours
MaxOps           == 2     \* operations per behaviour after construction
MaxResolutions   == 1     \* get_gps_location calls among them
MaxSessionOps    == 1     \* operations after construction in a whole session
MaxPoints        == 3     \* points in an answer to a history query
MaxNewPoints     == 2     \* points in an answer to an export's query
MaxRetryAttempts == 2     \* the configured retry_attempts go up to this
MaxClock         == 1450  \* the wall clock stops here
ClockStep        == 150   \* granularity of the wall clock

\* The wall clock at construction
StartClock == 1000

\* TractiveConfig defaults
cache_duration_seconds == 300
gps_accuracy_threshold == 100
default_user_id        == "5f525ea6d3278b5d10e1442c"

\* The configurations tried: the two feature flags and the fallback ceiling
Configs ==
    [enable_response_caching : BOOLEAN,
     enable_battery_monitoring : BOOLEAN,
     max_gps_fallback_hours : {MaxFallbackHours}]

\* Tokens are numbers; 0 stands for "no token" (None, an empty file)
NoToken == 0

CacheKeys == {"device_status_False", "device_status_True", "pet_data"}

NoEntry == [present |-> FALSE]
Entry(data, timestamp) ==
    [present |-> TRUE, data |-> data, timestamp |-> timestamp]

EmptyCache == [k \in CacheKeys |-> NoEntry]

\* An entry that is served up to and including the age cache_duration_seconds
CacheFreshInclusive(entry, t) == t - entry.timestamp <= cache_duration_seconds

\* time.time() - cached_data['timestamp'] < cache_duration_seconds
CacheFresh(entry, t) == t - entry.timestamp < cache_duration_seconds

\* TractiveClient._get_cached_response: the payload or a miss, and the cache
\* after the read (an expired entry is deleted)
CacheGet(cfg, cache, cache_key, t) ==
    IF ~cfg.enable_response_caching
    THEN [hit |-> FALSE, data |-> <<>>, cache |-> cache]
    ELSE IF cache[cache_key].present
         THEN IF CacheFresh(cache[cache_key], t)
              THEN [hit |-> TRUE, data |-> cache[cache_key].data,
                    cache |-> cache]
              ELSE [hit |-> FALSE, data |-> <<>>,
                    cache |-> [cache EXCEPT ![cache_key] = NoEntry]]
    ELSE [hit |-> FALSE, data |-> <<>>, cache |-> cache]

\* TractiveClient._set_cached_response
CacheSet(cfg, cache, cache_key, data, t) ==
    IF cfg.enable_response_caching
    THEN [cache EXCEPT ![cache_key] = Entry(data, t)]
    ELSE cache

-----------------------------------------------------------------------------
(***************************************************************************)
(* The server's answers                                                    *)
(***************************************************************************)

Wire(status_code, body) ==
    [status_code |-> status_code, retry_after |-> NoHeader, body |-> body]

Ok200(value) == Wire(200, JsonBody(value))

\* The failures tried for every endpoint: token rejected, server error
Unauthorized == Wire(401, EmptyBody)
ServerError  == Wire(500, EmptyBody)

\* Position records
PGood   == [latlong |-> <<Num(45), Num(9)>>, time |-> Num(1000),
            pos_uncertainty |-> Num(10)]
PPoor   == [latlong |-> <<Num(46), Num(9)>>, time |-> Num(1000),
            pos_uncertainty |-> Num(150)]
POld    == [latlong |-> <<Num(47), Num(9)>>, time |-> Num(400),
            pos_uncertainty |-> Num(10)]
PNoPair == [time |-> Num(1000), pos_uncertainty |-> Num(10)]
PShort  == [latlong |-> <<Num(45)>>, time |-> Num(1000),
            pos_uncertainty |-> Num(10)]
PText   == [latlong |-> <<Num(45), Num(9)>>, time |-> Num(1000),
            pos_uncertainty |-> Str(<<"n", "a">>)]
PNull   == [latlong |-> <<Null, Num(9)>>, time |-> Num(1000),
            pos_uncertainty |-> Num(10)]
PRange  == [latlong |-> <<Num(95), Num(9)>>, time |-> Num(1000),
            pos_uncertainty |-> Num(10)]

\* Answers of GET /device_pos_report/{id}
PrimaryWires ==
    { Ok200(PGood), Ok200(PPoor), Ok200(PNoPair), Ok200(PText), Ok200(PNull),
      Unauthorized, ServerError }

\* Answers of GET /tracker/{id}/positions: a list of segments
HistoryWires ==
    { Ok200(JsonList(<< <<POld, PGood>> >>)),
      Ok200(JsonList(<< <<PGood, PPoor>> >>)),
      Ok200(JsonList(<< <<PGood, PShort>>, <<PGood>> >>)),
      Ok200(JsonList(<<>>)),
      Unauthorized }

\* Points of the location history: three well-formed points out of order, a
\* fourth that shares a timestamp, and malformed ones
HT100  == [latlong |-> <<Num(45), Num(9)>>, time |-> Num(100),
           pos_uncertainty |-> Num(10), speed |-> Num(5)]
HT50   == [latlong |-> <<Num(46), Num(9)>>, time |-> Num(50),
           pos_uncertainty |-> Num(10), speed |-> Num(2)]
HT150  == [latlong |-> <<Num(45), Num(11)>>, time |-> Num(150),
           pos_uncertainty |-> Num(10), speed |-> Num(9)]
HT100b == [latlong |-> <<Num(48), Num(12)>>, time |-> Num(100),
           pos_uncertainty |-> Num(10), speed |-> Num(0)]

HistoryPoints == {HT100, HT50, HT150, HT100b, PNoPair, PText, PNull, PRange}

\* The sequences of at most n points
PointSeqs(n) == UNION { [1..k -> HistoryPoints] : k \in 0..n }

\* The points cut into segments after the positions in cuts
CutInto(points, cuts) ==
    LET segment_of(i) == 1 + Cardinality({k \in cuts : k < i})
        members(j) == {i \in 1..Len(points) : segment_of(i) = j}
        first(j) == CHOOSE i \in members(j) : \A o \in members(j) : i <= o
        last(j)  == CHOOSE i \in members(j) : \A o \in members(j) : o <= i
    IN [j \in 1..(Cardinality(cuts) + 1) |-> SubSeq(points, first(j), last(j))]

\* Answers of GET /tracker/{id}/positions to get_location_history: up to
\* MaxPoints points in one segment or cut into two, no segment, an empty
\* segment, no body, and the failures
SegmentWires ==
    UNION { { Ok200(JsonList(CutInto(points, cuts))) :
                cuts \in {{}} \cup {{k} : k \in 1..(Len(points) - 1)} } :
            points \in PointSeqs(MaxPoints) \ {<<>>} }
    \cup { Ok200(JsonList(<<>>)), Ok200(JsonList(<< <<>> >>)),
           Wire(200, EmptyBody), Unauthorized, ServerError }

\* Answers of GET /tracker/{id}/positions to export_gps_data: up to
\* MaxNewPoints points in one segment, or each in a segment of its own, no
\* body, and a failure
ExportPoints == {HT100, HT50, HT150, HT100b}

ExportWires ==
    UNION { { Ok200(JsonList(<<points>>)),
              Ok200(JsonList([i \in 1..Len(points) |-> <<points[i]>>])) } :
            points \in UNION { [1..k -> ExportPoints] : k \in 0..MaxNewPoints } }
    \cup { Wire(200, EmptyBody), ServerError }

\* Answers of GET /device_hw_report/{id}
HwLow  == [battery_level |-> 15, hw_status |-> "ok", time |-> 900,
           temperature_state |-> "normal"]
HwFull == [battery_level |-> 75, hw_status |-> "ok", time |-> 900,
           temperature_state |-> "HOT"]
HwBad  == [battery_level |-> 150, hw_status |-> "ok", time |-> 900]

HwWires == { Ok200(HwLow), Ok200(HwFull), Ok200(HwBad), Wire(200, EmptyBody),
             Unauthorized, ServerError }

\* Answers of GET /tracker/{id}
TrackerActive == [state |-> "active", battery_save_mode |-> FALSE]
TrackerSaving == [state |-> "OPERATIONAL", battery_save_mode |-> TRUE]

TrackerWires == { Ok200(TrackerActive), Ok200(TrackerSaving), Unauthorized }

\* Answers of GET /user/{user_id}/trackers
TrackerListWires ==
    { Ok200(JsonList(<<[_id |-> "tracker123"], [_id |-> "tracker456"]>>)),
      Ok200(JsonList(<<>>)), Unauthorized, ServerError }

\* Answers of POST /auth/token; the server issues the token `fresh`
LoginWires(fresh) ==
    { Ok200([access_token |-> fresh, user_id |-> "user1"]),
      Wire(200, EmptyBody), Unauthorized }

\* Answers to a command
CommandWires == { Wire(200, EmptyBody), Unauthorized, ServerError }

-----------------------------------------------------------------------------
(***************************************************************************)
(* TractiveClient and AsyncTractiveClient: operations (client.py)          *)
(*                                                                         *)
(* An operation is an operator from the client object, the configuration,  *)
(* the clock and the server's answers to a run: the client afterwards, the *)
(* result (returned value or raised exception), the requests sent in order *)
(* and the callbacks triggered in order.                                   *)
(***************************************************************************)

\* The fields set by __init__ before _initialize runs
NewClient(cls) ==
    [cls |-> cls,
     access_token |-> NoToken,
     user_id |-> "",
     tracker_id |-> "",
     http_token |-> NoToken,        \* the Authorization header of the session
     cache |-> EmptyCache,
     last_device_status |-> NoStatus,
     last_gps_location |-> NoFix,
     requests_made |-> 0,
     cache_hits |-> 0,
     errors_encountered |-> 0]

\* One request as sent (the bearer token and the query parameters it carried)
\* and the status and body answered
NoParams == <<>>

Req(method, endpoint, c, wire, params) ==
    [method |-> method, endpoint |-> endpoint, token |-> c.http_token,
     params |-> params, status_code |-> wire.status_code, body |-> wire.body]

Value(v)         == [kind |-> "ok", value |-> v, cause |-> "none"]
Raise(kind, why) == [kind |-> kind, value |-> <<>>, cause |-> why]

Run(c, result, requests, callbacks) ==
    [client |-> c, result |-> result, requests |-> requests,
     callbacks |-> callbacks]

Counted(c)  == [c EXCEPT !.requests_made = @ + 1]
Errored(c)  == [c EXCEPT !.errors_encountered = @ + 1]

\* HTTPClient.set_auth_token / clear_auth_token
SetAuthToken(c, token) == [c EXCEPT !.http_token = token]
ClearAuthToken(c)      == [c EXCEPT !.http_token = NoToken]

\* What the authentication does with the session's token when the cached token
\* fails validation: TractiveClient clears it, AsyncTractiveClient keeps it
AfterFailedValidation(c) ==
    IF c.cls = "TractiveClient" THEN ClearAuthToken(c) ELSE c

\* The callbacks of _authenticate exist in the synchronous client only
AuthCallback(c, event) == IF c.cls = "TractiveClient" THEN <<event>> ELSE <<>>

\* The credential login of _authenticate: POST /auth/token
CredentialLogin(c, w_login, requests) ==
    LET sent  == Append(requests,
                        Req("POST", "auth/token", c, w_login, NoParams))
        login == HandleResponse(w_login)
        failed(c1, why) ==
            [run |-> Run(Errored(c1), Raise("AuthenticationError", why), sent,
                         AuthCallback(c, "authentication_failed")),
             saved |-> NoToken]
    IN IF login.kind # "ok" THEN failed(c, login.kind)
       ELSE IF "access_token" \notin DOMAIN login.data
            THEN failed(Counted(c), "KeyError")
       ELSE IF "user_id" \notin DOMAIN login.data
            THEN failed([Counted(c) EXCEPT
                            !.access_token = login.data.access_token],
                        "KeyError")
       ELSE IF login.data.access_token = NoToken
            THEN failed([Counted(c) EXCEPT
                            !.access_token = login.data.access_token,
                            !.user_id = login.data.user_id],
                        "ValueError")
       ELSE [run |-> Run(SetAuthToken(
                             [Counted(c) EXCEPT
                                 !.access_token = login.data.access_token,
                                 !.user_id = login.data.user_id],
                             login.data.access_token),
                         Value([method |-> "credentials"]), sent,
                         AuthCallback(c, "authentication_success")),
             saved |-> login.data.access_token]

\* _authenticate of both clients: the cached token first, then the credentials.
\* cached_token is the content of the access token file; saved is the token
\* written to it (NoToken: nothing written).
Authenticate(c, cached_token, w_validate, w_login) ==
    IF cached_token # NoToken
    THEN LET c1 == SetAuthToken([c EXCEPT !.access_token = cached_token,
                                          !.user_id = default_user_id],
                                cached_token)
             validation == HandleResponse(w_validate)
             sent == <<Req("GET", "trackers", c1, w_validate, NoParams)>>
         IN IF validation.kind = "ok"
            THEN [run |-> Run(Counted(c1), Value([method |-> "cached_token"]), sent,
                              AuthCallback(c, "authentication_success")),
                  saved |-> NoToken]
            ELSE CredentialLogin(AfterFailedValidation(c1), w_login, sent)
    ELSE CredentialLogin(c, w_login, <<>>)

\* TractiveClient.is_authenticated: bool(self._access_token and self._user_id)
IsAuthenticated(c) == c.access_token # NoToken /\ c.user_id # ""

\* The _id of the last tracker of a list
LastTracker(trackers) == trackers.items[Len(trackers.items)]._id

\* trackers[0]['_id']
FirstTracker(trackers) == trackers.items[1]._id

\* _get_tracker_id: the _id of the first tracker of the account
GetTrackerId(c, w_trackers) ==
    LET sent == <<Req("GET", "trackers", c, w_trackers, NoParams)>>
        list == HandleResponse(w_trackers)
    IN IF list.kind # "ok"
       THEN Run(Errored(c), Raise("TrackerNotFoundError", list.kind), sent, <<>>)
       ELSE IF Falsy(list.data)
            THEN Run(Errored(Counted(c)),
                     Raise("TrackerNotFoundError", "TrackerNotFoundError"),
                     sent, <<>>)
       ELSE Run(Counted(c), Value([tracker_id |-> FirstTracker(list.data)]),
                sent, <<>>)

\* _get_tracker_info: never raises
GetTrackerInfo(c, w_tracker) ==
    LET sent == <<Req("GET", "tracker", c, w_tracker, NoParams)>>
        info == HandleResponse(w_tracker)
    IN Run(IF info.kind = "ok" THEN Counted(c) ELSE c, Value(<<>>), sent, <<>>)

\* The cache key of get_device_status: f"device_status_{partial}"
StatusCacheKey(partial) ==
    IF partial THEN "device_status_True" ELSE "device_status_False"

\* The alert of a full status fetched from the network
LowBatteryAlert(cfg, status) ==
    IF is_low_battery(status) /\ cfg.enable_battery_monitoring
    THEN <<"low_battery_alert">> ELSE <<>>

\* The alert of a status served from the response cache: none is triggered
CachedStatusAlert(cfg, status) == <<>>

\* A partial status that also reads the temperature state of the report
MinimalStatusWithTemperature(hw_data) ==
    NewDeviceStatus(Get(hw_data, "battery_level", 0),
                    Get(hw_data, "hw_status", "unknown"),
                    Get(hw_data, "time", 0),
                    TemperatureStateFromString(
                        Get(hw_data, "temperature_state", "unknown")),
                    "unknown", FALSE)

\* The status of the partial path: DeviceStatus(battery_level=..., 
\* hardware_status=..., timestamp=...), the other fields at their defaults
MinimalStatus(hw_data) ==
    NewDeviceStatus(Get(hw_data, "battery_level", 0),
                    Get(hw_data, "hw_status", "unknown"),
                    Get(hw_data, "time", 0),
                    "unknown", "unknown", FALSE)

\* TractiveClient.get_device_status
GetDeviceStatus(c, cfg, t, partial, use_cache, w_hw, w_tracker) ==
    LET cache_key == StatusCacheKey(partial)
        look == IF use_cache THEN CacheGet(cfg, c.cache, cache_key, t)
                ELSE [hit |-> FALSE, data |-> <<>>, cache |-> c.cache]
        c1 == [c EXCEPT !.cache = look.cache,
                        !.cache_hits = IF look.hit THEN @ + 1 ELSE @]
        failed(c2, why, sent) ==
            Run(Errored(c2), Raise("APIError", why), sent, <<>>)
    IN IF look.hit
       THEN LET cached == StatusFromApiData(look.data.tracker_data,
                                            look.data.hw_data)
            IN IF cached.err # "none" THEN failed(c1, cached.err, <<>>)
               ELSE Run(c1, Value(cached.status), <<>>,
                        CachedStatusAlert(cfg, cached.status))
       ELSE
       LET hw    == HandleResponse(w_hw)
           sent1 == <<Req("GET", "device_hw_report", c1, w_hw, NoParams)>>
       IN IF hw.kind # "ok" THEN failed(c1, hw.kind, sent1)
          ELSE IF partial
          THEN LET minimal == MinimalStatus(hw.data)
               IN IF minimal.err # "none"
                  THEN failed(Counted(c1), minimal.err, sent1)
                  ELSE Run([Counted(c1) EXCEPT
                               !.last_device_status = minimal.status],
                           Value(minimal.status), sent1, <<>>)
          ELSE
          LET tracker == HandleResponse(w_tracker)
              sent2   == Append(sent1,
                                Req("GET", "tracker", c1, w_tracker,
                                    NoParams))
          IN IF tracker.kind # "ok"
             THEN failed(Counted(c1), tracker.kind, sent2)
             ELSE
             LET c2 == [Counted(Counted(c1)) EXCEPT
                           !.cache = CacheSet(cfg, @, cache_key,
                                              [tracker_data |-> tracker.data,
                                               hw_data |-> hw.data], t)]
                 full == StatusFromApiData(tracker.data, hw.data)
             IN IF full.err # "none" THEN failed(c2, full.err, sent2)
                ELSE Run([c2 EXCEPT !.last_device_status = full.status],
                         Value(full.status), sent2,
                         LowBatteryAlert(cfg, full.status))

\* _get_raw_gps_data clamps the start of the window to 30 days back
TimeFrom(t, hours_back) == Max(t - 3600 * hours_back, t - 30 * 24 * 3600)

\* TractiveClient.get_historical_gps_location: every failure, whatever its
\* kind, leaves as GPSDataError
HistoricalGpsLocation(c, t, hours_back, w_history) ==
    LET entry == Req("GET", "positions", c, w_history,
                     [time_from |-> TimeFrom(t, hours_back), time_to |-> t])
        segments == HandleResponse(w_history)
        failed(c1, why) ==
            [client |-> Errored(c1), err |-> "GPSDataError", cause |-> why,
             fix |-> NoFix, entry |-> entry]
    IN IF segments.kind # "ok" THEN failed(c, segments.kind)
       ELSE IF Falsy(segments.data) THEN failed(Counted(c), "GPSDataError")
       ELSE IF "items" \notin DOMAIN segments.data
            THEN failed(Counted(c), "KeyError")
       ELSE IF segments.data.items[1] = <<>>
            THEN failed(Counted(c), "GPSDataError")
       ELSE LET first_segment == segments.data.items[1]
                latest == FromApiData(first_segment[Len(first_segment)])
            IN IF latest.err # "none" THEN failed(Counted(c), latest.err)
               ELSE [client |-> Counted(c), err |-> "none", cause |-> "none",
                     fix |-> latest.fix, entry |-> entry]

\* The notification of a fix resolved by the primary endpoint
PoorAccuracy(fix) ==
    IF fix.uncertainty > gps_accuracy_threshold
    THEN <<"poor_gps_accuracy">> ELSE <<>>

\* The notifications of a fix resolved by the historical fallback
FallbackCallbacks(fix) == <<"gps_fallback_used">>

\* A search that gives up one window early
SearchExhaustedEarly(cfg, hours_back) ==
    hours_back >= cfg.max_gps_fallback_hours

\* for hours_back in range(1, max_gps_fallback_hours + 1): the loop is over
SearchExhausted(cfg, hours_back) == hours_back > cfg.max_gps_fallback_hours

\* TractiveClient._get_gps_fallback from hours_back on; script[h] is the
\* server's answer to the query for h hours back
RECURSIVE GpsFallback(_, _, _, _, _, _)
GpsFallback(c, cfg, t, hours_back, script, sent) ==
    IF SearchExhausted(cfg, hours_back)
    THEN [client |-> c, err |-> "GPSDataError", fix |-> NoFix,
          requests |-> sent, callbacks |-> <<>>]
    ELSE CHOOSE found \in
            { IF query.err = "none"
              THEN [client |-> [query.client EXCEPT
                                   !.last_gps_location = query.fix],
                    err |-> "none", fix |-> query.fix,
                    requests |-> Append(sent, query.entry),
                    callbacks |-> FallbackCallbacks(query.fix)]
              ELSE GpsFallback(query.client, cfg, t, hours_back + 1, script,
                               Append(sent, query.entry)) :
              query \in {HistoricalGpsLocation(c, t, hours_back,
                                               script[hours_back])} } : TRUE

\* The exceptions of the primary parse that lead to the fallback
FallsBack(err) == err \in {"KeyError", "IndexError", "ValueError"}

\* if use_cache and self._last_gps_location: age_minutes <= max_age_minutes
\* A short-circuit that does not look at the age of the stored fix
CachedFixAnyAge(c, t, use_cache, max_age_minutes) ==
    use_cache /\ c.last_gps_location # NoFix

CachedFixUsable(c, t, use_cache, max_age_minutes) ==
    /\ use_cache
    /\ c.last_gps_location # NoFix
    /\ t - c.last_gps_location.timestamp <= 60 * max_age_minutes

\* TractiveClient.get_gps_location
GetGpsLocation(c, cfg, t, use_cache, max_age_minutes, w_primary, script) ==
    LET failed(c1, why, sent) ==
            Run(Errored(c1), Raise("GPSDataError", why), sent, <<>>)
    IN IF CachedFixUsable(c, t, use_cache, max_age_minutes)
       THEN Run(c, Value(c.last_gps_location), <<>>, <<>>)
       ELSE
       LET primary == HandleResponse(w_primary)
           sent1   == <<Req("GET", "device_pos_report", c, w_primary,
                            NoParams)>>
       IN IF primary.kind # "ok" THEN failed(c, primary.kind, sent1)
          ELSE
          LET parsed == FromApiData(primary.data)
          IN IF parsed.err = "none"
             THEN Run([Counted(c) EXCEPT !.last_gps_location = parsed.fix],
                      Value(parsed.fix), sent1, PoorAccuracy(parsed.fix))
             ELSE IF FallsBack(parsed.err)
             THEN LET search == GpsFallback(Counted(c), cfg, t, 1, script,
                                            sent1)
                  IN IF search.err = "none"
                     THEN Run(search.client, Value(search.fix),
                              search.requests, search.callbacks)
                     ELSE failed(search.client, search.err, search.requests)
             ELSE failed(Counted(c), parsed.err, sent1)

\* Rational numbers stand for the floats of the analytics: num / den
Rat(num, den) == [num |-> num, den |-> den]
RatEq(a, b)   == a.num * b.den = b.num * a.den
RatLess(a, b) == a.num * b.den < b.num * a.den

RECURSIVE Flatten(_)
Flatten(segments) ==
    IF segments = <<>> THEN <<>>
    ELSE segments[1] \o Flatten(Tail(segments))

\* GPSLocation.distance_to: the great-circle distance is represented by the
\* taxicab distance on the model's grid of whole degrees
DistanceTo(a, b) ==
    (IF a.latitude >= b.latitude THEN a.latitude - b.latitude
     ELSE b.latitude - a.latitude)
    + (IF a.longitude >= b.longitude THEN a.longitude - b.longitude
       ELSE b.longitude - a.longitude)

\* except (ValueError, KeyError): continue
SkippedPoint(err) == err \in {"ValueError", "KeyError"}

\* The loop over the points of all segments: the locations parsed, or the
\* first exception that is not skipped
RECURSIVE ParsePoints(_, _)
ParsePoints(points, parsed) ==
    IF points = <<>> THEN [err |-> "none", locations |-> parsed]
    ELSE CHOOSE out \in
            { IF location.err = "none"
              THEN ParsePoints(Tail(points), Append(parsed, location.fix))
              ELSE IF SkippedPoint(location.err)
              THEN ParsePoints(Tail(points), parsed)
              ELSE [err |-> location.err, locations |-> <<>>] :
              location \in {FromApiData(points[1])} } : TRUE

\* The locations left in the order of their arrival
ArrivalOrder(locations) == locations

\* list.sort(key=lambda x: x.timestamp): stable, ascending
RECURSIVE InsertByTimestamp(_, _)
InsertByTimestamp(location, sorted) ==
    IF sorted = <<>> THEN <<location>>
    ELSE IF sorted[Len(sorted)].timestamp <= location.timestamp
         THEN Append(sorted, location)
    ELSE Append(InsertByTimestamp(location, SubSeq(sorted, 1, Len(sorted) - 1)),
                sorted[Len(sorted)])

RECURSIVE SortByTimestamp(_)
SortByTimestamp(locations) ==
    IF locations = <<>> THEN <<>>
    ELSE InsertByTimestamp(
             locations[Len(locations)],
             SortByTimestamp(SubSeq(locations, 1, Len(locations) - 1)))

\* total_distance += prev_loc.distance_to(curr_loc) over i in 1..len-1
RECURSIVE TotalDistance(_)
TotalDistance(locations) ==
    IF Len(locations) < 2 THEN 0
    ELSE DistanceTo(locations[1], locations[2]) + TotalDistance(Tail(locations))

\* speeds.append(curr_loc.speed): the reported speeds of all points but the
\* first
Speeds(locations) ==
    [i \in 1..(Len(locations) - 1) |-> locations[i + 1].speed]

\* if curr_loc.speed > max_speed: max_speed = curr_loc.speed, from 0.0
RECURSIVE MaxSpeed(_)
MaxSpeed(speeds) ==
    IF speeds = <<>> THEN 0
    ELSE Max(speeds[Len(speeds)], MaxSpeed(SubSeq(speeds, 1, Len(speeds) - 1)))

\* sum(speeds) / len(speeds) if speeds else 0.0
AverageSpeed(speeds) ==
    IF speeds = <<>> THEN Rat(0, 1) ELSE Rat(SeqSum(speeds), Len(speeds))

\* EmptyLocationHistory()
EmptyLocationHistory ==
    [locations |-> <<>>, total_distance |-> 0, max_speed |-> 0,
     average_speed |-> Rat(0, 1), time_span_hours |-> Rat(0, 1),
     location_count |-> 0, start_location |-> NoFix, end_location |-> NoFix]

\* LocationHistory(...) with its properties start_location, end_location and
\* location_count
NewLocationHistory(locations, total_distance, max_speed, average_speed, time_span_hours) ==
    [locations |-> locations, total_distance |-> total_distance,
     max_speed |-> max_speed, average_speed |-> average_speed,
     time_span_hours |-> time_span_hours,
     location_count |-> Len(locations),
     start_location |-> locations[1],
     end_location |-> locations[Len(locations)]]

\* A time span derived from the first and the last timestamp
ActualTimeSpan(locations, hours_back) ==
    Rat(locations[Len(locations)].timestamp - locations[1].timestamp, 3600)

\* time_span_hours=hours_back of the result without analytics
RequestedTimeSpan(locations, hours_back) == Rat(hours_back, 1)

\* The analytics of sorted locations
History(locations, hours_back, include_analytics) ==
    IF ~include_analytics
    THEN NewLocationHistory(locations, 0, 0, Rat(0, 1),
                            RequestedTimeSpan(locations, hours_back))
    ELSE NewLocationHistory(locations, TotalDistance(locations),
                            MaxSpeed(Speeds(locations)),
                            AverageSpeed(Speeds(locations)),
                            ActualTimeSpan(locations, hours_back))

\* TractiveClient.get_location_history
GetLocationHistory(c, t, hours_back, include_analytics, w_history) ==
    LET sent == <<Req("GET", "positions", c, w_history,
                      [time_from |-> TimeFrom(t, hours_back), time_to |-> t])>>
        raw_segments == HandleResponse(w_history)
        failed(c1, why) ==
            Run(Errored(c1), Raise("GPSDataError", why), sent, <<>>)
    IN IF raw_segments.kind # "ok" THEN failed(c, raw_segments.kind)
       ELSE IF raw_segments.data = EmptyObject
            THEN Run(Counted(c), Value(EmptyLocationHistory), sent, <<>>)
       ELSE CHOOSE run \in
               { IF all.err # "none" THEN failed(Counted(c), all.err)
                 ELSE IF all.locations = <<>>
                 THEN Run(Counted(c), Value(EmptyLocationHistory), sent, <<>>)
                 ELSE Run(Counted(c),
                          Value(History(SortByTimestamp(all.locations),
                                        hours_back, include_analytics)),
                          sent, <<>>) :
                 all \in {ParsePoints(Flatten(raw_segments.data.items),
                                      <<>>)} } : TRUE

\* The columns of the exported series that export_gps_data reads or writes;
\* the other fields of the points are carried along
Columns == {"time", "latlong", "distance_meters", "calculated_speed_kmh",
            "cumulative_distance", "datetime"}

\* The cells of a DataFrame: a missing value, a list, a float, a datetime, and
\* the text that to_csv writes for a list or a datetime; numbers are Num
NaN                   == [t |-> "nan"]
ListCell(values)      == [t |-> "list", v |-> values]
RatCell(r)            == [t |-> "rat", v |-> r]
DatetimeCell(seconds) == [t |-> "datetime", v |-> seconds]
TextCell(cell)        == [t |-> "text", of |-> cell]

\* pd.DataFrame()
EmptyFrame == [columns |-> {}, rows |-> <<>>]

\* No file at csv_path
NoFile == [present |-> FALSE]

\* pd.DataFrame(total_data): a column for every key of some point, a missing
\* value where a point lacks the key or has null
NewFrame(points) ==
    [columns |-> {k \in {"time", "latlong"} :
                     \E i \in 1..Len(points) : k \in DOMAIN points[i]},
     rows |-> [i \in 1..Len(points) |->
                 [k \in Columns |->
                     IF k \notin DOMAIN points[i] THEN NaN
                     ELSE IF k = "latlong" THEN ListCell(points[i][k])
                     ELSE IF points[i][k] = Null THEN NaN
                     ELSE points[i][k]]]]

\* pd.concat([new_df, existing_df]).fillna(0).reset_index(drop=True)
ConcatFilled(new_df, existing_df) ==
    LET columns == new_df.columns \cup existing_df.columns
        rows    == new_df.rows \o existing_df.rows
    IN [columns |-> columns,
        rows |-> [i \in 1..Len(rows) |->
                    [k \in Columns |->
                        IF k \in columns /\ rows[i][k] = NaN THEN Num(0)
                        ELSE rows[i][k]]]]

\* The values of a set in ascending order
RECURSIVE Ascending(_)
Ascending(values) ==
    IF values = {} THEN <<>>
    ELSE LET least == CHOOSE x \in values : \A y \in values : x <= y
         IN <<least>> \o Ascending(values \ {least})

\* The rows in the order of their arrival, whatever their time
UnsortedRows(rows, keep) == rows

\* sort_values(by=['time']).drop_duplicates(subset=['time']): one row per
\* time, ascending.  The sort is not stable, so the row kept for a time that
\* occurs more than once is the first or the last of them in rows.
SortedUniqueRows(rows, keep) ==
    LET times   == Ascending({rows[i].time.v : i \in 1..Len(rows)})
        at(tm)  == {i \in 1..Len(rows) : rows[i].time.v = tm}
        kept(tm) == IF keep = "first"
                    THEN CHOOSE i \in at(tm) : \A j \in at(tm) : i <= j
                    ELSE CHOOSE i \in at(tm) : \A j \in at(tm) : j <= i
    IN [n \in 1..Len(times) |-> rows[kept(times[n])]]

\* prev_lat, prev_lon = row['latlong'] and GPSLocation(...) succeed: a list of
\* two numbers in range
Unpacks(cell) ==
    /\ cell.t = "list"
    /\ Len(cell.v) = 2
    /\ cell.v[1].t = "num" /\ cell.v[2].t = "num"
    /\ ValidGPSLocation(cell.v[1].v, cell.v[2].v, 0)

RowLocation(row) ==
    [latitude |-> row.latlong.v[1].v, longitude |-> row.latlong.v[2].v,
     timestamp |-> row.time.v]

\* df['distance_meters'].cumsum() up to row i
RECURSIVE CumulativeDistance(_, _)
CumulativeDistance(rows, i) ==
    IF i <= 1 THEN 0
    ELSE DistanceTo(RowLocation(rows[i - 1]), RowLocation(rows[i]))
         + CumulativeDistance(rows, i - 1)

\* TractiveClient._add_analytics_columns: any exception leaves the frame as
\* it was
AddAnalyticsColumns(df) ==
    IF "latlong" \notin df.columns \/ Len(df.rows) < 2 THEN df
    ELSE IF \E i \in 1..Len(df.rows) : ~Unpacks(df.rows[i].latlong) THEN df
    ELSE
    LET distance(i) ==
            IF i = 1 THEN 0
            ELSE DistanceTo(RowLocation(df.rows[i - 1]), RowLocation(df.rows[i]))
        time_diff(i) == df.rows[i].time.v - df.rows[i - 1].time.v
        speed(i) ==
            IF i = 1 THEN Rat(0, 1)
            ELSE IF time_diff(i) > 0 THEN Rat(36 * distance(i), 10 * time_diff(i))
            ELSE Rat(0, 1)
    IN [columns |-> df.columns \cup {"distance_meters", "calculated_speed_kmh",
                                     "cumulative_distance"},
        rows |-> [i \in 1..Len(df.rows) |->
                    [df.rows[i] EXCEPT
                        !["distance_meters"] = Num(distance(i)),
                        !["calculated_speed_kmh"] = RatCell(speed(i)),
                        !["cumulative_distance"] =
                            Num(CumulativeDistance(df.rows, i))]]]

\* combined_df['datetime'] = pd.to_datetime(combined_df['time'], unit='s')
WithDatetime(df) ==
    [columns |-> df.columns \cup {"datetime"},
     rows |-> [i \in 1..Len(df.rows) |->
                 [df.rows[i] EXCEPT
                     !["datetime"] = DatetimeCell(df.rows[i].time.v)]]]

\* DataFrame.to_csv: a list and a datetime are written as their text
WrittenCell(cell) ==
    IF cell.t \in {"list", "datetime"} THEN TextCell(cell) ELSE cell

ToCsv(df) ==
    [present |-> TRUE, columns |-> df.columns,
     rows |-> [i \in 1..Len(df.rows) |->
                 [k \in Columns |-> WrittenCell(df.rows[i][k])]]]

\* pd.read_csv of the file, an empty frame when there is no file or when
\* reading fails on a file without columns
ReadCsv(file) ==
    IF ~file.present \/ file.columns = {} THEN EmptyFrame
    ELSE [columns |-> file.columns, rows |-> file.rows]

\* The outcomes of get_pet_data: the pet record fetched in some requests, or a
\* failure
PetAnswers ==
    { [kind |-> "ok", created_at |-> 10, requests |-> 4],
      [kind |-> "APIError", created_at |-> 0, requests |-> 1] }

\* TractiveClient._get_pet_creation_date: created_at of the cached or fetched
\* pet data, one year back when get_pet_data fails
GetPetCreationDate(c, cfg, t, pet) ==
    LET look == CacheGet(cfg, c.cache, "pet_data", t)
    IN IF look.hit
       THEN [client |-> [c EXCEPT !.cache_hits = @ + 1],
             date |-> look.data.created_at]
       ELSE IF pet.kind = "ok"
       THEN [client |-> [c EXCEPT
                 !.cache = CacheSet(cfg, look.cache, "pet_data",
                                    [created_at |-> pet.created_at], t),
                 !.requests_made = @ + pet.requests],
             date |-> pet.created_at]
       ELSE [client |-> Errored([c EXCEPT !.cache = look.cache,
                                          !.requests_made = @ + pet.requests]),
             date |-> t - 365 * 24 * 3600]

\* The frame export_gps_data builds from the new points and the existing rows
CombinedFrame(points, existing_df, convert_timestamps, include_analytics, keep) ==
    LET combined == ConcatFilled(NewFrame(points), existing_df)
        cleaned ==
            IF "time" \notin combined.columns THEN combined
            ELSE CHOOSE out \in
                    { IF include_analytics THEN AddAnalyticsColumns(sorted)
                      ELSE sorted :
                      sorted \in {[combined EXCEPT
                          !.rows = SortedUniqueRows(combined.rows, keep)]} } :
                    TRUE
    IN IF convert_timestamps /\ "time" \in cleaned.columns
       THEN WithDatetime(cleaned) ELSE cleaned

\* TractiveClient.export_gps_data: the run and the file it leaves
ExportGpsData(c, cfg, t, file, convert_timestamps, include_analytics, keep, pet, w_history) ==
    LET existing_df == ReadCsv(file)
        dated ==
            IF "time" \in existing_df.columns /\ existing_df.rows # <<>>
            THEN [client |-> c,
                  date |-> existing_df.rows[Len(existing_df.rows)].time.v]
            ELSE GetPetCreationDate(c, cfg, t, pet)
        sent == <<Req("GET", "positions", dated.client, w_history,
                      [time_from |-> Max(dated.date, t - 30 * 24 * 3600),
                       time_to |-> t])>>
        raw_segments == HandleResponse(w_history)
    IN IF raw_segments.kind # "ok"
       THEN [run |-> Run(Errored(dated.client),
                         Raise("APIError", raw_segments.kind), sent, <<>>),
             file |-> file]
       ELSE CHOOSE out \in
               { [run |-> Run(Counted(dated.client), Value(combined_df), sent,
                              <<"data_exported">>),
                  file |-> ToCsv(combined_df)] :
                 combined_df \in
                    {CombinedFrame(IF raw_segments.data = EmptyObject THEN <<>>
                                   ELSE Flatten(raw_segments.data.items),
                                   existing_df, convert_timestamps,
                                   include_analytics, keep)} } : TRUE

\* AsyncTractiveClient.get_gps_location: the primary endpoint only
AsyncGetGpsLocation(c, w_primary) ==
    LET primary == HandleResponse(w_primary)
        sent    == <<Req("GET", "device_pos_report", c, w_primary,
                         NoParams)>>
    IN IF primary.kind # "ok"
       THEN Run(Errored(c), Raise("GPSDataError", primary.kind), sent, <<>>)
       ELSE LET parsed == FromApiData(primary.data)
            IN IF parsed.err = "none"
               THEN Run(Counted(c), Value(parsed.fix), sent, <<>>)
               ELSE Run(Errored(Counted(c)),
                        Raise("GPSDataError", parsed.err), sent, <<>>)

\* The commands of CommandType
Commands == {"battery_saver", "live_tracking", "led_control", "buzzer_control"}

\* The method send_command uses: POST for the battery saver, GET otherwise
CommandMethod(command) == IF command = "battery_saver" THEN "POST" ELSE "GET"

CommandEndpoint(command) ==
    IF command = "battery_saver" THEN "battery_save_mode" ELSE "command"

\* TractiveClient.send_command
SendCommand(c, command, w_command) ==
    LET sent == <<Req(CommandMethod(command), CommandEndpoint(command), c,
                      w_command, NoParams)>>
        answer == HandleResponse(w_command)
    IN IF answer.kind # "ok"
       THEN Run(Errored(c), Raise("APIError", answer.kind), sent, <<>>)
       ELSE Run(Counted(c), Value(<<>>), sent, <<"command_sent">>)

\* TractiveClient.refresh_authentication: clear the token, then _authenticate
RefreshAuthentication(c, cached_token, w_validate, w_login) ==
    LET cleared == ClearAuthToken([c EXCEPT !.access_token = NoToken])
        auth    == Authenticate(cleared, cached_token, w_validate, w_login)
    IN IF auth.run.result.kind = "ok" THEN auth
       ELSE [auth EXCEPT
                !.run.result = Raise("AuthenticationError",
                                     "AuthenticationError")]

\* _setup_battery_monitoring: a full status and one more alert when it is low;
\* failures are logged only
SetupBatteryMonitoring(c, cfg, t, w_hw, w_tracker) ==
    LET status == GetDeviceStatus(c, cfg, t, FALSE, TRUE, w_hw, w_tracker)
    IN IF status.result.kind = "ok" /\ is_low_battery(status.result.value)
       THEN [status EXCEPT !.callbacks = Append(@, "low_battery_alert")]
       ELSE status

\* TractiveClient._initialize and AsyncTractiveClient.initialize
Initialize(c, cfg, t, cached_token, w_validate, w_login, w_trackers, w_info, w_hw, w_tracker) ==
    LET sync == c.cls = "TractiveClient"
        auth == Authenticate(c, cached_token, w_validate, w_login)
        giveup(run, kind) ==
            Run(Errored(run.client), Raise(kind, run.result.cause),
                run.requests,
                IF sync THEN Append(run.callbacks, "initialization_failed")
                ELSE run.callbacks)
    IN IF auth.run.result.kind # "ok"
       THEN [run |-> giveup(auth.run, "AuthenticationError"),
             saved |-> auth.saved]
       ELSE
       LET id == GetTrackerId(auth.run.client, w_trackers)
           upto_id == Run(id.client, id.result,
                          auth.run.requests \o id.requests, auth.run.callbacks)
       IN IF id.result.kind # "ok"
          THEN [run |-> giveup(upto_id, "TrackerNotFoundError"),
                saved |-> auth.saved]
          ELSE
          LET c1 == [id.client EXCEPT !.tracker_id = id.result.value.tracker_id]
          IN IF ~sync
             THEN [run |-> Run(c1, Value(<<>>), upto_id.requests, <<>>),
                   saved |-> auth.saved]
             ELSE
             LET info == GetTrackerInfo(c1, w_info)
                 monitoring ==
                     IF cfg.enable_battery_monitoring
                     THEN SetupBatteryMonitoring(info.client, cfg, t, w_hw,
                                                 w_tracker)
                     ELSE Run(info.client, Value(<<>>), <<>>, <<>>)
             IN [run |-> Run(monitoring.client, Value(<<>>),
                             upto_id.requests \o info.requests
                                 \o monitoring.requests,
                             auth.run.callbacks \o monitoring.callbacks
                                 \o <<"client_initialized">>),
                 saved |-> auth.saved]

-----------------------------------------------------------------------------
(***************************************************************************)
(* The client as a state machine                                           *)
(***************************************************************************)

\* The operation recorded before any operation ran
NoOp ==
    [name |-> "none", args |-> <<>>, result |-> Value(<<>>),
     requests |-> <<>>, callbacks |-> <<>>]

Did(name, args, run) ==
    [name |-> name, args |-> args, result |-> run.result,
     requests |-> run.requests, callbacks |-> run.callbacks]

\* The tokens whose validation call was answered 401 in a run of _authenticate
RejectedBy(requests) ==
    IF /\ requests # <<>>
       /\ requests[1].endpoint = "trackers"
       /\ requests[1].status_code = 401
    THEN {requests[1].token} ELSE {}

\* TractiveConfig()
DefaultConfig ==
    [enable_response_caching |-> TRUE,
     enable_battery_monitoring |-> TRUE,
     max_gps_fallback_hours |-> MaxFallbackHours]

\* A run of _authenticate ends: the token file, the server's counter and the
\* rejected tokens afterwards
AuthEffects(auth) ==
    /\ token_file' = IF auth.saved # NoToken THEN auth.saved ELSE token_file
    /\ issued' = IF auth.saved # NoToken THEN auth.saved ELSE issued
    /\ rejected' = rejected \cup RejectedBy(auth.run.requests)

\* TractiveClient.__init__ / AsyncTractiveClient.initialize
initialize ==
    /\ phase = "new"
    /\ \E w_validate \in TrackerListWires, w_login \in LoginWires(issued + 1),
          w_trackers \in TrackerListWires, w_info \in TrackerWires,
          w_hw \in HwWires, w_tracker \in TrackerWires :
          \E init \in {Initialize(client, config, clock, token_file,
                                   w_validate, w_login, w_trackers, w_info,
                                   w_hw, w_tracker)} :
             /\ client' = init.run.client
             /\ phase' = IF init.run.result.kind = "ok" THEN "ready"
                         ELSE "failed"
             /\ last_op' = Did("initialize", <<>>, init.run)
             /\ AuthEffects(init)
    /\ UNCHANGED <<config, clock, ops>>
    /\ UNCHANGED <<rlVars, httpVars, csv_file, ble>>

Ready(cls) ==
    /\ phase = "ready"
    /\ client.cls = cls
    /\ ops < MaxOps

\* TractiveClient.refresh_authentication
refresh_authentication ==
    /\ Ready("TractiveClient")
    /\ \E w_validate \in TrackerListWires, w_login \in LoginWires(issued + 1) :
          \E auth \in {RefreshAuthentication(client, token_file, w_validate,
                                              w_login)} :
             /\ client' = auth.run.client
             /\ last_op' = Did("refresh_authentication", <<>>, auth.run)
             /\ AuthEffects(auth)
    /\ ops' = ops + 1
    /\ UNCHANGED <<config, phase, clock>>
    /\ UNCHANGED <<rlVars, httpVars, csv_file, ble>>

\* An operation that touches neither the token file nor the server's tokens
Operation(name, args, ran) ==
    \E run \in {ran} :
    /\ client' = run.client
    /\ last_op' = Did(name, args, run)
    /\ ops' = ops + 1
    /\ UNCHANGED <<config, phase, clock, token_file, issued, rejected>>
    /\ UNCHANGED <<rlVars, httpVars, csv_file, ble>>

\* TractiveClient.get_device_status(partial, use_cache)
get_device_status ==
    /\ Ready("TractiveClient")
    /\ \E partial \in BOOLEAN, use_cache \in BOOLEAN,
          w_hw \in HwWires, w_tracker \in TrackerWires :
          Operation("get_device_status",
                    [partial |-> partial, use_cache |-> use_cache],
                    GetDeviceStatus(client, config, clock, partial, use_cache,
                                    w_hw, w_tracker))

\* The max_age_minutes tried: the default
MaxAgeMinutes == {5}

\* The answers to the history queries of one fallback search, one per hour
\* back.  Answers the search cannot reach (after the first window that yields
\* a fix) are fixed to the first choice, since they are never consumed.
Unreached == Unauthorized

Yields(c, w_history) ==
    HistoricalGpsLocation(c, 0, 1, w_history).err = "none"

Scripts(c, ceiling) ==
    { script \in [1..ceiling -> HistoryWires] :
        \A h \in 1..ceiling :
            Yields(c, script[h]) =>
                \A later \in (h + 1)..ceiling : script[later] = Unreached }

\* No history query is sent unless the primary answer leads to the fallback
ScriptsFor(c, cfg, t, use_cache, max_age_minutes, w_primary) ==
    LET primary == HandleResponse(w_primary)
    IN IF /\ ~CachedFixUsable(c, t, use_cache, max_age_minutes)
          /\ primary.kind = "ok"
          /\ FallsBack(FromApiData(primary.data).err)
       THEN Scripts(c, cfg.max_gps_fallback_hours)
       ELSE {[h \in 1..cfg.max_gps_fallback_hours |-> Unreached]}

\* TractiveClient.get_gps_location(use_cache, max_age_minutes)
get_gps_location ==
    /\ Ready("TractiveClient")
    /\ ops < MaxResolutions
    /\ \E use_cache \in BOOLEAN, max_age_minutes \in MaxAgeMinutes,
          w_primary \in PrimaryWires :
          \E script \in ScriptsFor(client, config, clock, use_cache,
                                   max_age_minutes, w_primary) :
             Operation("get_gps_location",
                       [use_cache |-> use_cache,
                        max_age_minutes |-> max_age_minutes],
                       GetGpsLocation(client, config, clock, use_cache,
                                      max_age_minutes, w_primary, script))

\* AsyncTractiveClient.get_gps_location
async_get_gps_location ==
    /\ Ready("AsyncTractiveClient")
    /\ \E w_primary \in PrimaryWires :
          Operation("get_gps_location", <<>>,
                    AsyncGetGpsLocation(client, w_primary))

\* TractiveClient.send_command(command, state)
send_command ==
    /\ Ready("TractiveClient")
    /\ \E command \in Commands, w_command \in CommandWires :
          Operation("send_command", [command |-> command],
                    SendCommand(client, command, w_command))

\* TractiveClient.clear_cache
clear_cache ==
    /\ Ready("TractiveClient")
    /\ Operation("clear_cache", <<>>,
                 Run([client EXCEPT !.cache = EmptyCache], Value(<<>>), <<>>,
                     <<>>))

\* The payloads of direct cache writes
CachePayloads ==
    { [tracker_data |-> TrackerActive, hw_data |-> HwLow],
      [tracker_data |-> TrackerSaving, hw_data |-> HwFull] }

\* A caller of _get_cached_response; the operation is recorded with the cache
\* and the time it was called at
cache_get ==
    /\ Ready("TractiveClient")
    /\ \E cache_key \in CacheKeys :
          \E look \in {CacheGet(config, client.cache, cache_key, clock)} :
             Operation("cache_get",
                       [cache_key |-> cache_key, cache |-> client.cache,
                        time |-> clock],
                       Run([client EXCEPT
                               !.cache = look.cache,
                               !.cache_hits = IF look.hit THEN @ + 1 ELSE @],
                           IF look.hit THEN Value(look.data)
                           ELSE Raise("miss", "none"),
                           <<>>, <<>>))

\* A caller of _set_cached_response
cache_set ==
    /\ Ready("TractiveClient")
    /\ \E cache_key \in CacheKeys, data \in CachePayloads :
          Operation("cache_set",
                    [cache_key |-> cache_key, data |-> data, time |-> clock],
                    Run([client EXCEPT
                            !.cache = CacheSet(config, @, cache_key, data,
                                               clock)],
                        Value(<<>>), <<>>, <<>>))

\* The hours_back tried: the default
HoursBack == {24}

\* TractiveClient.get_location_history(hours_back, include_analytics), the
\* first operation of a constructed client
get_location_history ==
    /\ Ready("TractiveClient")
    /\ ops = 0
    /\ \E hours_back \in HoursBack, include_analytics \in BOOLEAN,
          w_history \in SegmentWires :
          Operation("get_location_history",
                    [hours_back |-> hours_back,
                     include_analytics |-> include_analytics],
                    GetLocationHistory(client, clock, hours_back,
                                       include_analytics, w_history))

\* TractiveClient.export_gps_data(filename, convert_timestamps,
\* include_analytics), the first operation of a constructed client
export_gps_data ==
    /\ Ready("TractiveClient")
    /\ ops = 0
    /\ \E convert_timestamps \in BOOLEAN, include_analytics \in BOOLEAN,
          keep \in {"first", "last"}, pet \in PetAnswers,
          w_history \in ExportWires :
          \E export \in {ExportGpsData(client, config, clock, csv_file,
                                       convert_timestamps, include_analytics,
                                       keep, pet, w_history)} :
             /\ client' = export.run.client
             /\ csv_file' = export.file
             /\ last_op' = Did("export_gps_data",
                               [convert_timestamps |-> convert_timestamps,
                                include_analytics |-> include_analytics,
                                existing |-> csv_file],
                               export.run)
    /\ ops' = ops + 1
    /\ UNCHANGED <<config, phase, clock, token_file, issued, rejected>>
    /\ UNCHANGED <<rlVars, httpVars, ble>>

\* What one attempt of the session's adapter meets: no connection, no answer
\* within the timeout, or an answer of the server
ConnectFailure == [kind |-> "ConnectionError"]
ReadTimeout    == [kind |-> "Timeout"]
Answer(wire)   == [kind |-> "response", wire |-> wire]

AttemptEvents ==
    { ConnectFailure, ReadTimeout, Answer(Ok200([status |-> "success"])),
      Answer(Unauthorized), Answer(Wire(404, EmptyBody)),
      Answer(Wire(429, EmptyBody)), Answer(ServerError),
      Answer(Wire(503, EmptyBody)) }

\* The methods of HTTPClient: get, post, put, delete, patch
Methods == {"GET", "POST", "PUT", "DELETE", "PATCH"}

\* Retry(allowed_methods=[...], status_forcelist=[...]) of _create_session
AllowedMethods  == {"HEAD", "GET", "OPTIONS", "POST", "PUT", "DELETE"}
StatusForcelist == {429, 500, 502, 503, 504}

\* Retry._is_method_retryable with the allowed_methods of the session
MethodRetryable(method) == method \in AllowedMethods

\* Retry.is_retry: the answers tried carry no Retry-After header
IsRetry(method, status_code) ==
    MethodRetryable(method) /\ status_code \in StatusForcelist

\* The attempts of the mounted adapter for one session.request, from attempt i
\* on with total retries left: a connection failure is retried for any
\* method, a read timeout and a listed status for the allowed methods; with
\* raise_on_status=False the last answer is returned when the retries are
\* exhausted, and a failure without an answer reaches request's handlers
RECURSIVE Attempts(_, _, _, _)
Attempts(method, script, i, total) ==
    LET event   == script[i]
        failure == Raised("APIError", -1, -1)
        again   == Attempts(method, script, i + 1, total - 1)
    IN IF event.kind = "ConnectionError"
       THEN IF total - 1 < 0 THEN [attempts |-> i, outcome |-> failure]
            ELSE again
       ELSE IF event.kind = "Timeout"
       THEN IF ~MethodRetryable(method) \/ total - 1 < 0
            THEN [attempts |-> i, outcome |-> failure]
            ELSE again
       ELSE IF IsRetry(method, event.wire.status_code) /\ total - 1 >= 0
            THEN again
            ELSE [attempts |-> i, outcome |-> HandleResponse(event.wire)]

\* HTTPClient.request on a session created with retry_attempts
Request(c, method, retry_attempts, script) ==
    LET sent == Attempts(method, script, 1, retry_attempts)
    IN Run(c,
           IF sent.outcome.kind = "ok" THEN Value(sent.outcome.data)
           ELSE Raise(sent.outcome.kind, sent.outcome.status_code),
           [i \in 1..sent.attempts |-> [method |-> method, met |-> script[i]]],
           <<>>)

\* HTTPClient.request(method, url), once per behaviour
request ==
    /\ ops = 0
    /\ \E method \in Methods, retry_attempts \in 0..MaxRetryAttempts :
       \E script \in [1..(retry_attempts + 1) -> AttemptEvents] :
          Operation("request",
                    [method |-> method, retry_attempts |-> retry_attempts],
                    Request(client, method, retry_attempts, script))

\* AsyncHTTPClient._handle_response on the response the session holds, once
\* per behaviour
async_handle_response ==
    /\ ops = 0
    /\ \E length_known \in BOOLEAN, declared_json \in BOOLEAN :
          \E handled \in {AsyncHandleResponse(response, length_known,
                                              declared_json)} :
             last_op' = Did("async_handle_response",
                            [length_known |-> length_known,
                             declared_json |-> declared_json],
                            Run(client, handled, <<>>, <<>>))
    /\ ops' = 1
    /\ UNCHANGED <<client, config, phase, clock, token_file, issued, rejected>>
    /\ UNCHANGED <<rlVars, httpVars, csv_file, ble>>

(***************************************************************************)
(* TractiveBLEClient (bluetooth.py)                                        *)
(***************************************************************************)

\* Bounds of the radio model
MaxRadioCalls == 3     \* calls of connect, disconnect, read and command
MaxCallbacks  == 2     \* connection callbacks registered per behaviour

\* The devices in range, and the address of no device (None)
Addresses == {"AA:01", "BB:02"}
NoAddress == "None"

\* BLEConnectionState
DISCONNECTED == "disconnected"
CONNECTING   == "connecting"
CONNECTED    == "connected"
RECONNECTING == "reconnecting"
ERROR        == "error"

\* The result of a call that is suspended at an await
Pending == [kind |-> "pending", value |-> <<>>, cause |-> "none"]

\* BLEClientBleak.__init__: no client object, not connected; links is the set
\* of devices to which a client object made by this backend holds a connection
NewBackend == [client |-> NoAddress, connected |-> FALSE, links |-> {}]

\* BLEClientBleak.connect up to its await: the client object made for the
\* address replaces the one the backend held
BackendConnectBegin(backend, address) == [backend EXCEPT !.client = address]

\* BLEClientBleak.connect after its await: the attempt of the client object
\* made for `address` ended
BackendConnectEnd(backend, address, established) ==
    IF established
    THEN [backend |-> [backend EXCEPT !.connected = TRUE,
                                      !.links = @ \cup {address}],
          result |-> Value(TRUE)]
    ELSE [backend |-> backend, result |-> Raise("BLEError", "Connection failed")]

\* BLEClientBleak.disconnect: a failure of the client object is logged, the
\* flag stays
BackendDisconnect(backend, closed) ==
    IF backend.client # NoAddress /\ backend.connected /\ closed
    THEN [backend |-> [backend EXCEPT !.connected = FALSE,
                                      !.links = @ \ {backend.client}],
          result |-> Value(TRUE)]
    ELSE [backend |-> backend, result |-> Value(FALSE)]

\* BLEClientBleak.read_characteristic: read is "data", "empty" or "failure"
BackendRead(backend, read) ==
    IF backend.client = NoAddress \/ ~backend.connected
    THEN Raise("BLEError", "Not connected")
    ELSE IF read = "failure" THEN Raise("BLEError", "Read failed")
    ELSE Value(read)

\* BLEClientBleak.write_characteristic
BackendWrite(backend, written) ==
    IF backend.client = NoAddress \/ ~backend.connected
    THEN Raise("BLEError", "Not connected")
    ELSE IF ~written THEN Raise("BLEError", "Write failed")
    ELSE Value(TRUE)

\* TractiveBLEClient.__init__
NewBLEClient ==
    [initialized |-> FALSE, backend |-> NewBackend,
     connection_state |-> DISCONNECTED, device_address |-> NoAddress,
     connection_callbacks |-> <<>>, pending |-> {}]

\* What one call of the radio client did: the client after it, its result, the
\* calls it made to the backend and the callbacks it notified
RadioRun(b, result, calls, notified) ==
    [ble |-> b, result |-> result, requests |-> calls, callbacks |-> notified]

\* The loop if what a callback raises ended it
RECURSIVE NotifyUntilRaise(_, _, _, _)
NotifyUntilRaise(callbacks, i, connected, address) ==
    IF i > Len(callbacks) THEN <<>>
    ELSE <<[callback |-> i, connected |-> connected, address |-> address,
            raised |-> callbacks[i].raises]>>
         \o (IF callbacks[i].raises THEN <<>>
             ELSE NotifyUntilRaise(callbacks, i + 1, connected, address))

\* "for callback in self._connection_callbacks: try: callback(connected,
\* address) except Exception: log": every callback from the i-th on is called
RECURSIVE NotifyCallbacks(_, _, _, _)
NotifyCallbacks(callbacks, i, connected, address) ==
    IF i > Len(callbacks) THEN <<>>
    ELSE <<[callback |-> i, connected |-> connected, address |-> address,
            raised |-> callbacks[i].raises]>>
         \o NotifyCallbacks(callbacks, i + 1, connected, address)

\* TractiveBLEClient.connect up to the await of the backend's connect;
\* initialize() runs first when there is no backend yet and raises when none
\* is available
ConnectBegin(b, call, device_address, available) ==
    IF ~b.initialized /\ ~available
    THEN RadioRun(b, Raise("BLEError", "No BLE client available"), <<>>, <<>>)
    ELSE RadioRun([b EXCEPT !.initialized = TRUE,
                            !.connection_state = CONNECTING,
                            !.device_address = device_address,
                            !.backend = BackendConnectBegin(@, device_address),
                            !.pending = @ \cup {[call |-> call,
                                                 device_address |-> device_address]}],
                  Pending, <<"connect">>, <<>>)

\* TractiveBLEClient.connect after the await: the backend returned True or
\* raised
ConnectEnd(b, pending_call, established) ==
    CHOOSE out \in {
        IF end.result.kind = "ok"
        THEN RadioRun([b EXCEPT !.backend = end.backend,
                                !.connection_state = CONNECTED,
                                !.pending = @ \ {pending_call}],
                      Value(TRUE), <<>>,
                      NotifyCallbacks(b.connection_callbacks, 1, TRUE,
                                      pending_call.device_address))
        ELSE RadioRun([b EXCEPT !.connection_state = ERROR,
                                !.pending = @ \ {pending_call}],
                      Raise("BLEError", "Connection failed"), <<>>, <<>>) :
        end \in {BackendConnectEnd(b.backend, pending_call.device_address,
                                   established)} } : TRUE

\* TractiveBLEClient.disconnect
Disconnect(b, closed) ==
    IF b.initialized /\ b.connection_state = CONNECTED
    THEN CHOOSE out \in {
            RadioRun([b EXCEPT !.backend = end.backend,
                               !.connection_state = DISCONNECTED],
                     end.result, <<"disconnect">>,
                     NotifyCallbacks(b.connection_callbacks, 1, FALSE,
                                     b.device_address)) :
            end \in {BackendDisconnect(b.backend, closed)} } : TRUE
    ELSE RadioRun(b, Value(TRUE), <<>>, <<>>)

\* A read that goes to the backend whatever the connection state is
ReadUnchecked(b, read) ==
    CHOOSE out \in {
        RadioRun(b,
                 IF data.kind = "ok" /\ data.value = "data"
                 THEN Value("battery_level")
                 ELSE Raise("BLEError", "Battery read failed"),
                 <<"read_characteristic">>, <<>>) :
        data \in {BackendRead(b.backend, read)} } : TRUE

\* TractiveBLEClient.get_battery_level
GetBatteryLevel(b, read) ==
    IF b.connection_state # CONNECTED
    THEN RadioRun(b, Raise("BLEError", "Not connected to any device"),
                  <<>>, <<>>)
    ELSE CHOOSE out \in {
            RadioRun(b,
                     IF data.kind = "ok" /\ data.value = "data"
                     THEN Value("battery_level")
                     ELSE Raise("BLEError", "Battery read failed"),
                     <<"read_characteristic">>, <<>>) :
            data \in {BackendRead(b.backend, read)} } : TRUE

\* A command or state string is the sequence of its parts; None and "" are <<>>
\* f"{command}_{state}" if state else command
CommandKey(command, state) ==
    IF state # <<>> THEN command \o <<"_">> \o state ELSE command

\* The keys of BLE_COMMANDS
BLE_COMMANDS ==
    {<<"light", "_", "on">>, <<"light", "_", "off">>,
     <<"sound", "_", "on">>, <<"sound", "_", "off">>}

\* TractiveBLEClient.send_command
BLESendCommand(b, command, state, written) ==
    IF b.connection_state # CONNECTED
    THEN RadioRun(b, Raise("BLEError", "Not connected to any device"),
                  <<>>, <<>>)
    ELSE IF CommandKey(command, state) \notin BLE_COMMANDS
    THEN RadioRun(b, Raise("BLEError", "Unknown BLE command"), <<>>, <<>>)
    ELSE CHOOSE out \in {
            RadioRun(b,
                     IF done.kind = "ok" THEN Value(TRUE)
                     ELSE Raise("BLEError", "Command failed"),
                     <<"write_characteristic">>, <<>>) :
            done \in {BackendWrite(b.backend, written)} } : TRUE

\* TractiveBLEClient.is_connected and TractiveBLEClient.device_address
IsConnected(b) == b.connection_state = CONNECTED
DeviceAddress(b) == IF IsConnected(b) THEN b.device_address ELSE NoAddress

\* The commands and states callers pass
RadioCommands == {<<"light">>, <<"sound">>, <<"buzzer">>, <<"light", "_", "on">>}
RadioStates   == {<<"on">>, <<"off">>, <<"blink">>, <<>>}

\* One call of the radio client ran: the call is recorded with the client as
\* it was before and after
RadioOperation(name, args, ran) ==
    /\ ble' = ran.ble
    /\ last_op' = [Did(name, args, ran) EXCEPT
                      !.args = [call |-> args, before |-> ble,
                                after |-> ran.ble]]
    /\ ops' = ops + 1
    /\ UNCHANGED <<client, config, phase, clock, token_file, issued, rejected,
                   csv_file>>
    /\ UNCHANGED <<rlVars, httpVars>>

\* TractiveBLEClient.add_connection_callback; the callback raises or returns
\* when it is called
add_connection_callback ==
    /\ ble.pending = {}
    /\ Len(ble.connection_callbacks) < MaxCallbacks
    /\ \E raises \in BOOLEAN :
          ble' = [ble EXCEPT !.connection_callbacks =
                                 Append(@, [raises |-> raises])]
    /\ UNCHANGED <<client, config, phase, clock, token_file, issued, rejected,
                   last_op, ops, csv_file>>
    /\ UNCHANGED <<rlVars, httpVars>>

\* connect(device_address) is called while no call is suspended
ble_connect ==
    /\ ops < MaxRadioCalls
    /\ ble.pending = {}
    /\ \E device_address \in Addresses, available \in BOOLEAN :
          RadioOperation("connect", [device_address |-> device_address],
                         ConnectBegin(ble, ops + 1, device_address, available))

\* connect(device_address) is called while another connect is suspended
ble_connect_while_pending ==
    /\ ops < MaxRadioCalls
    /\ Cardinality(ble.pending) = 1
    /\ \E device_address \in Addresses :
          RadioOperation("connect", [device_address |-> device_address],
                         ConnectBegin(ble, ops + 1, device_address, TRUE))

\* The backend's connect of a suspended call ends and the call resumes
ble_connect_resumes ==
    \E pending_call \in ble.pending, established \in BOOLEAN :
       \E ran \in {ConnectEnd(ble, pending_call, established)} :
          /\ ble' = ran.ble
          /\ last_op' = [Did("connect", <<>>, ran) EXCEPT
                            !.args = [call |-> pending_call, before |-> ble,
                                      after |-> ran.ble]]
          /\ UNCHANGED <<client, config, phase, clock, token_file, issued,
                         rejected, ops, csv_file>>
          /\ UNCHANGED <<rlVars, httpVars>>

\* disconnect()
ble_disconnect ==
    /\ ops < MaxRadioCalls
    /\ ble.pending = {}
    /\ \E closed \in BOOLEAN :
          RadioOperation("disconnect", <<>>, Disconnect(ble, closed))

\* get_battery_level(); a call that finds the client not connected ends before
\* any await, so it also runs while a connect is suspended
ble_get_battery_level ==
    /\ ops < MaxRadioCalls
    /\ ble.pending = {} \/ ble.connection_state # CONNECTED
    /\ \E read \in {"data", "empty", "failure"} :
          RadioOperation("get_battery_level", <<>>, GetBatteryLevel(ble, read))

\* send_command(command, state)
ble_send_command ==
    /\ ops < MaxRadioCalls
    /\ ble.pending = {} \/ ble.connection_state # CONNECTED
    /\ \E command \in RadioCommands, state \in RadioStates,
          written \in BOOLEAN :
          RadioOperation("send_command",
                         [command |-> command, state |-> state],
                         BLESendCommand(ble, command, state, written))

\* Bounds of the monitoring model
MaxIterations == 2     \* max_iterations is 0..MaxIterations
MaxPolls      == 3     \* the iterations whose course is chosen

\* What one iteration of monitor_location meets: the answer of the primary
\* endpoint, and a callback that returns, raises, or is interrupted by the user
MonitorWires     == {Ok200(PGood), ServerError}
CallbackOutcomes == {"returns", "raises", "KeyboardInterrupt"}

RECURSIVE SeqsUpTo(_, _)
SeqsUpTo(S, n) ==
    IF n = 0 THEN {<<>>}
    ELSE SeqsUpTo(S, n - 1)
         \cup {Append(q, x) : q \in {r \in SeqsUpTo(S, n - 1) : Len(r) = n - 1},
                              x \in S}

MonitorCourses ==
    SeqsUpTo([wire : MonitorWires, callback : CallbackOutcomes], MaxPolls)

\* The loop of monitor_location before its first iteration
MonitorStart == [iteration |-> 0, polls |-> 0, requests |-> <<>>]

\* What monitor_location did: returned is FALSE while the loop is still running
\* after the chosen course
Monitored(c, t, returned, done) ==
    [client |-> c, clock |-> t, returned |-> returned,
     iteration |-> done.iteration, polls |-> done.polls,
     requests |-> done.requests]

\* TractiveClient.monitor_location(callback, interval_seconds, max_iterations):
\* the loop from the state `done`, over the course of its next iterations
RECURSIVE MonitorLocation(_, _, _, _, _, _, _)
MonitorLocation(c, cfg, t, interval_seconds, max_iterations, course, done) ==
    IF ~(done.iteration < max_iterations) THEN Monitored(c, t, TRUE, done)
    ELSE IF course = <<>> THEN Monitored(c, t, FALSE, done)
    ELSE CHOOSE out \in {
        IF poll.result.kind # "ok" \/ course[1].callback = "raises"
        THEN MonitorLocation(poll.client, cfg, t + interval_seconds,
                             interval_seconds, max_iterations, Tail(course),
                             [iteration |-> done.iteration,
                              polls |-> done.polls + 1,
                              requests |-> done.requests \o poll.requests])
        ELSE IF course[1].callback = "KeyboardInterrupt"
        THEN Monitored(poll.client, t, TRUE,
                       [iteration |-> done.iteration,
                        polls |-> done.polls + 1,
                        requests |-> done.requests \o poll.requests])
        ELSE MonitorLocation(poll.client, cfg, t + interval_seconds,
                             interval_seconds, max_iterations, Tail(course),
                             [iteration |-> done.iteration + 1,
                              polls |-> done.polls + 1,
                              requests |-> done.requests \o poll.requests]) :
        poll \in {GetGpsLocation(c, cfg, t, TRUE, 5, course[1].wire,
                                 [h \in 1..cfg.max_gps_fallback_hours
                                    |-> Unreached])} } : TRUE

\* monitor_location, the first operation of a constructed client
monitor_location ==
    /\ Ready("TractiveClient")
    /\ ops = 0
    /\ \E max_iterations \in 0..MaxIterations, interval_seconds \in {0, 60},
          course \in MonitorCourses :
          \E ran \in {MonitorLocation(client, config, clock, interval_seconds,
                                      max_iterations, course, MonitorStart)} :
             /\ client' = ran.client
             /\ clock' = ran.clock
             /\ last_op' = [name |-> "monitor_location",
                            args |-> [max_iterations |-> max_iterations,
                                      interval_seconds |-> interval_seconds,
                                      course |-> course],
                            result |-> Value([returned |-> ran.returned,
                                              iteration |-> ran.iteration,
                                              polls |-> ran.polls]),
                            requests |-> ran.requests,
                            callbacks |-> <<>>]
    /\ ops' = ops + 1
    /\ UNCHANGED <<config, phase, token_file, issued, rejected>>
    /\ UNCHANGED <<rlVars, httpVars, csv_file, ble>>

\* The hardware reports and tracker records whose status is viewed
BatteryLevels == -1..101

ViewedReports ==
    [battery_level : BatteryLevels, hw_status : {"ok", "ERROR", "Warning", ""},
     time : {900}, temperature_state : {"normal", "HOT", "cold", "tepid"}]

ViewedTrackers ==
    [state : {"active", "inactive", "OPERATIONAL", "operational"},
     battery_save_mode : {FALSE}]

\* DeviceStatus.from_api_data(tracker_data, hw_data) and the derived views of
\* the status built, once per behaviour
device_status_views ==
    /\ ops = 0
    /\ ops' = 1
    /\ \E hw_data \in ViewedReports, tracker_data \in ViewedTrackers :
          \E built \in {StatusFromApiData(tracker_data, hw_data)} :
             last_op' = Did("device_status_views",
                            [hw_data |-> hw_data, tracker_data |-> tracker_data],
                            Run(client,
                                IF built.err = "none"
                                THEN Value(Views(built.status))
                                ELSE Raise(built.err, built.err),
                                <<>>, <<>>))
    /\ UNCHANGED <<client, config, phase, clock, token_file, issued, rejected>>
    /\ UNCHANGED <<rlVars, httpVars, csv_file, ble>>

\* Time passes between two operations
tick ==
    /\ clock + ClockStep <= MaxClock
    /\ clock' = clock + ClockStep
    /\ UNCHANGED <<client, config, phase, token_file, issued, rejected,
                   last_op, ops>>
    /\ UNCHANGED <<rlVars, httpVars, csv_file, ble>>

-----------------------------------------------------------------------------
(***************************************************************************)
(* Specifications                                                          *)
(***************************************************************************)

vars == <<rlVars, httpVars, clientVars>>

\* The client classes and the token files tried: no file, an old token
ClientClasses == {"TractiveClient", "AsyncTractiveClient"}
OldToken == 1

\* The rate limiter used by a single caller
InitRateLimiter ==
    /\ limiter \in {NewLimiter(n) : n \in 1..MaxCeiling}
    /\ rl_clock = 0
    /\ released = <<>>
    /\ csv_file = NoFile
    /\ ble = NewBLEClient
    /\ response = IdleResponse
    /\ outcome = NoOutcome
    /\ client = NewClient("TractiveClient")
    /\ config = DefaultConfig
    /\ phase = "new"
    /\ clock = StartClock
    /\ token_file = NoToken
    /\ issued = OldToken
    /\ rejected = {}
    /\ last_op = NoOp
    /\ ops = 0

SpecRateLimiter == InitRateLimiter /\ [][RLNext]_vars

\* The classification of wire responses by HTTPClient
InitHTTP ==
    /\ limiter = NewLimiter(1)
    /\ rl_clock = 0
    /\ released = <<>>
    /\ csv_file = NoFile
    /\ ble = NewBLEClient
    /\ response \in Responses
    /\ outcome = NoOutcome
    /\ client = NewClient("TractiveClient")
    /\ config = DefaultConfig
    /\ phase = "new"
    /\ clock = StartClock
    /\ token_file = NoToken
    /\ issued = OldToken
    /\ rejected = {}
    /\ last_op = NoOp
    /\ ops = 0

SpecHTTP == InitHTTP /\ [][HTTPNext]_vars

\* A client of either class from its construction on: the session and its
\* authentication
Init ==
    /\ limiter = NewLimiter(1)
    /\ rl_clock = 0
    /\ released = <<>>
    /\ csv_file = NoFile
    /\ ble = NewBLEClient
    /\ response = IdleResponse
    /\ outcome = NoOutcome
    /\ client \in {NewClient(cls) : cls \in ClientClasses}
    /\ config \in {cfg \in Configs : cfg.enable_response_caching}
    /\ phase = "new"
    /\ clock = StartClock
    /\ token_file \in {NoToken, OldToken}
    /\ issued = OldToken
    /\ rejected = {}
    /\ last_op = NoOp
    /\ ops = 0

Next ==
    \/ initialize
    \/ refresh_authentication
    \/ send_command
    \/ async_get_gps_location

Spec == Init /\ [][Next]_vars

\* A TractiveClient right after a construction that met a healthy server:
\* the cached token accepted or a login, the tracker found, a status fetched
\* when battery monitoring is on
Constructed(cfg, cached_token, hw_answers) ==
    { Initialize(NewClient("TractiveClient"), cfg, StartClock, cached_token,
                 w_validate, Ok200([access_token |-> OldToken + 1,
                                    user_id |-> "user1"]),
                 Ok200(JsonList(<<[_id |-> "tracker123"]>>)),
                 Ok200(TrackerActive), w_hw, Ok200(TrackerActive)) :
        w_validate \in {Ok200(JsonList(<<[_id |-> "tracker123"]>>)),
                        Unauthorized},
        w_hw \in hw_answers }

\* No location resolved since the construction
NoResolution == <<>>

\* The client after the resolutions made since the construction: none, or one
\* get_gps_location answered w_earlier by the primary endpoint
Resolved(c, cfg, w_earlier) ==
    IF w_earlier = NoResolution THEN c
    ELSE GetGpsLocation(c, cfg, StartClock, FALSE, 5, w_earlier,
                        [h \in 1..cfg.max_gps_fallback_hours |-> Unreached]
                       ).client

ConstructedWith(configs, hw_answers, earlier) ==
    /\ limiter = NewLimiter(1)
    /\ rl_clock = 0
    /\ released = <<>>
    /\ response = IdleResponse
    /\ outcome = NoOutcome
    /\ config \in configs
    /\ phase = "ready"
    /\ clock = StartClock
    /\ \E cached_token \in {NoToken, OldToken}, w_earlier \in earlier :
       \E made \in Constructed(config, cached_token, hw_answers) :
          /\ client = Resolved(made.run.client, config, w_earlier)
          /\ token_file = IF made.saved # NoToken THEN made.saved
                          ELSE cached_token
          /\ issued = IF made.saved # NoToken THEN made.saved ELSE OldToken
          /\ rejected = RejectedBy(made.run.requests)
    /\ last_op = NoOp
    /\ ops = 0

InitConstructed ==
    /\ ConstructedWith(Configs, {Ok200(HwLow), Ok200(HwFull)}, {NoResolution})
    /\ csv_file = NoFile
    /\ ble = NewBLEClient

\* The same with the default configuration, before and after a first
\* resolution of the location
InitResolver ==
    /\ ConstructedWith({DefaultConfig}, {Ok200(HwFull)},
                       {NoResolution, Ok200(PGood)})
    /\ csv_file = NoFile
    /\ ble = NewBLEClient

\* The device status operations of a constructed client
NextStatus == get_device_status \/ clear_cache \/ tick

SpecStatus == InitConstructed /\ [][NextStatus]_vars

\* The location resolver of a constructed client
NextResolver == get_gps_location \/ tick

SpecResolver == InitResolver /\ [][NextResolver]_vars

\* The response cache of a constructed client
NextCache == cache_get \/ cache_set \/ clear_cache \/ tick

SpecCache == InitConstructed /\ [][NextCache]_vars

\* A TractiveClient or AsyncTractiveClient from its construction on, with
\* every operation of the session
session_operation ==
    /\ ops < MaxSessionOps
    /\ \/ refresh_authentication
       \/ send_command
       \/ get_device_status
       \/ get_gps_location
       \/ async_get_gps_location
       \/ clear_cache

NextSession == initialize \/ session_operation

SpecSession == Init /\ [][NextSession]_vars

\* The location history of a constructed client
InitHistory ==
    /\ ConstructedWith({DefaultConfig}, {Ok200(HwFull)}, {NoResolution})
    /\ csv_file = NoFile
    /\ ble = NewBLEClient

NextHistory == get_location_history

SpecHistory == InitHistory /\ [][NextHistory]_vars

\* The file a previous session's export left at csv_path: none, or the series
\* of an export with the default arguments
EarlierExports ==
    {NoFile} \cup
    { ExportGpsData(NewClient("TractiveClient"), DefaultConfig, StartClock,
                    NoFile, TRUE, TRUE, "first", pet, w_history).file :
        pet \in PetAnswers, w_history \in ExportWires }

\* The export of a constructed client over such a file
InitExport ==
    /\ ConstructedWith({DefaultConfig}, {Ok200(HwFull)}, {NoResolution})
    /\ csv_file \in EarlierExports
    /\ ble = NewBLEClient

NextExport == export_gps_data

SpecExport == InitExport /\ [][NextExport]_vars

\* Both transports classify the same response
NextEquivalence == handle_response \/ async_handle_response

SpecEquivalence == InitHTTP /\ [][NextEquivalence]_vars

\* The radio client on its own, its calls one after the other
InitRadio ==
    /\ limiter = NewLimiter(1)
    /\ rl_clock = 0
    /\ released = <<>>
    /\ csv_file = NoFile
    /\ ble = NewBLEClient
    /\ response = IdleResponse
    /\ outcome = NoOutcome
    /\ client = NewClient("TractiveClient")
    /\ config = DefaultConfig
    /\ phase = "new"
    /\ clock = StartClock
    /\ token_file = NoToken
    /\ issued = OldToken
    /\ rejected = {}
    /\ last_op = NoOp
    /\ ops = 0

NextRadio ==
    \/ add_connection_callback
    \/ ble_connect
    \/ ble_connect_resumes
    \/ ble_disconnect
    \/ ble_get_battery_level
    \/ ble_send_command

SpecRadio == InitRadio /\ [][NextRadio]_vars

\* The radio client when connect is also called while a connect is suspended
NextRadioConcurrent == NextRadio \/ ble_connect_while_pending

SpecRadioConcurrent == InitRadio /\ [][NextRadioConcurrent]_vars

\* The monitoring loop of a constructed client
InitMonitor ==
    /\ ConstructedWith({DefaultConfig}, {Ok200(HwFull)}, {NoResolution})
    /\ csv_file = NoFile
    /\ ble = NewBLEClient

NextMonitor == monitor_location

SpecMonitor == InitMonitor /\ [][NextMonitor]_vars

\* The transport on its own: one request of any method against any course
\* of attempts
InitTransport ==
    /\ limiter = NewLimiter(1)
    /\ rl_clock = 0
    /\ released = <<>>
    /\ csv_file = NoFile
    /\ ble = NewBLEClient
    /\ response = IdleResponse
    /\ outcome = NoOutcome
    /\ client = NewClient("TractiveClient")
    /\ config = DefaultConfig
    /\ phase = "new"
    /\ clock = StartClock
    /\ token_file = NoToken
    /\ issued = OldToken
    /\ rejected = {}
    /\ last_op = NoOp
    /\ ops = 0

NextTransport == request

SpecTransport == InitTransport /\ [][NextTransport]_vars

\* The data models on their own: a status built from any report and record
InitViews ==
    /\ limiter = NewLimiter(1)
    /\ rl_clock = 0
    /\ released = <<>>
    /\ csv_file = NoFile
    /\ ble = NewBLEClient
    /\ response = IdleResponse
    /\ outcome = NoOutcome
    /\ client = NewClient("TractiveClient")
    /\ config = DefaultConfig
    /\ phase = "new"
    /\ clock = StartClock
    /\ token_file = NoToken
    /\ issued = OldToken
    /\ rejected = {}
    /\ last_op = NoOp
    /\ ops = 0

NextViews == device_status_views

SpecViews == InitViews /\ [][NextViews]_vars

-----------------------------------------------------------------------------
(***************************************************************************)
(* Claims                                                                  *)
(***************************************************************************)

\* The releases inside the 60-second window that ends with release i
ReleasedInWindow(i) ==
    { j \in 1..Len(released) :
        /\ released[i] - Window < released[j]
        /\ released[j] <= released[i] }

\* C1: with ceiling N and a single caller, no more than N calls are released
\* inside any trailing 60-second window (so the (N+1)-th call of a window is
\* held back until 60 seconds after the oldest release still in the window).
C1_WindowCeiling ==
    \A i \in 1..Len(released) :
        Cardinality(ReleasedInWindow(i)) <= limiter.calls_per_minute

\* C2: the classification of a response follows the status/body table:
\* 401 -> AuthenticationError; 429 -> rate-limited failure with the server's
\* Retry-After delay (60 when absent or not an integer); any other status
\* outside 200..299 -> APIError with that status code; 2xx with an empty body
\* -> {}; 2xx with a non-JSON body -> APIError; otherwise the parsed body.
C2_ClassificationTable ==
    outcome # NoOutcome =>
        LET s == response.status_code
            h == response.retry_after
        IN IF s = 401 THEN outcome.kind = "AuthenticationError"
           ELSE IF s = 429 THEN
                /\ outcome.kind = "APIError"
                /\ outcome.status_code = 429
                /\ outcome.wait_time =
                      (IF h # NoHeader /\ IntParses(h) THEN IntValue(h) ELSE 60)
           ELSE IF ~(200 <= s /\ s <= 299) THEN
                /\ outcome.kind = "APIError"
                /\ outcome.status_code = s
           ELSE IF response.body.kind = "empty" THEN
                /\ outcome.kind = "ok"
                /\ outcome.data = EmptyObject
           ELSE IF response.body.kind = "text" THEN outcome.kind = "APIError"
           ELSE /\ outcome.kind = "ok"
                /\ outcome.data = response.body.value

\* The requests of the last operation that were answered 401
Rejections ==
    { i \in 1..Len(last_op.requests) : last_op.requests[i].status_code = 401 }

\* C3: whenever a request made inside a TractiveClient operation after the
\* initialization is answered 401, the operation ends at once with an
\* authentication failure that reaches the caller as such, and issues no
\* further request with the rejected token.
C3_AuthFailurePropagates ==
    last_op.name \in {"get_device_status", "get_gps_location", "send_command"}
        => \A i \in Rejections :
              /\ last_op.result.kind = "AuthenticationError"
              /\ i = Len(last_op.requests)

\* The login requests among a sequence of requests
Logins(requests) ==
    { i \in 1..Len(requests) :
        requests[i].method = "POST" /\ requests[i].endpoint = "auth/token" }

\* C4: when the validation call made with the persisted token is answered
\* 401, the credential login is performed exactly once, and no later request
\* of the session (the login itself, the tracker resolution, a later
\* refresh_authentication) carries the rejected token again, for both client
\* classes.
C4_RejectedTokenNotResent ==
    [][ (phase' # phase \/ ops' # ops) =>
          LET sent == last_op'.requests
              now_rejected == RejectedBy(sent)
          IN /\ \A i \in 1..Len(sent) : sent[i].token \notin rejected
             /\ now_rejected # {} =>
                   /\ \A i \in 2..Len(sent) :
                         sent[i].token \notin now_rejected
                   /\ Cardinality(Logins(sent)) = 1 ]_vars

\* C5: every successful refresh_authentication issues a POST /auth/token and
\* ends with the token issued by that login installed in the session and
\* persisted, whatever token is stored on disk at the time of the call.
C5_RefreshForcesLogin ==
    (last_op.name = "refresh_authentication" /\ last_op.result.kind = "ok")
        => \E i \in Logins(last_op.requests) :
              LET issued_token == last_op.requests[i].body.value.access_token
              IN /\ client.http_token = issued_token
                 /\ client.access_token = issued_token
                 /\ token_file = issued_token

\* The entry a cache_get found under its key, and its age at the read
FoundEntry == last_op.args.cache[last_op.args.cache_key]
FoundAge   == last_op.args.time - FoundEntry.timestamp

\* What every read and write of the cache does whatever the age limit: a
\* write stores the payload under its key with the time of the write; a hit
\* returns the stored payload and leaves the cache alone; a miss removes the
\* entry of the key read, if any, and leaves all other entries unchanged
CacheReadsAndWrites ==
    /\ last_op.name = "cache_set" =>
          client.cache[last_op.args.cache_key] =
              Entry(last_op.args.data, last_op.args.time)
    /\ (last_op.name = "cache_get" /\ last_op.result.kind = "ok") =>
          /\ FoundEntry.present
          /\ last_op.result.value = FoundEntry.data
          /\ client.cache = last_op.args.cache
    /\ (last_op.name = "cache_get" /\ last_op.result.kind # "ok") =>
          client.cache =
              [last_op.args.cache EXCEPT ![last_op.args.cache_key] = NoEntry]

\* C6 as stated: with caching enabled, get(key) returns the payload of the
\* most recent set(key, payload) as long as the entry's age does not exceed
\* the time-to-live, and misses exactly when there is no entry or its age
\* exceeds the time-to-live; a read that finds a stale entry removes it and
\* leaves all other entries unchanged.
C6_FreshUpToTTL ==
    config.enable_response_caching =>
        /\ CacheReadsAndWrites
        /\ last_op.name = "cache_get" =>
              (last_op.result.kind = "ok" <=>
                  (FoundEntry.present /\ FoundAge <= cache_duration_seconds))

\* C6 amended: with caching enabled, get(key) returns the payload of the most
\* recent set(key, payload) as long as the entry's age is strictly less than
\* the time-to-live, and misses exactly when there is no entry or its age has
\* reached the time-to-live; a read that finds such an entry removes it and
\* leaves all other entries unchanged.
C6_FreshBelowTTL ==
    config.enable_response_caching =>
        /\ CacheReadsAndWrites
        /\ last_op.name = "cache_get" =>
              (last_op.result.kind = "ok" <=>
                  (FoundEntry.present /\ FoundAge < cache_duration_seconds))

\* A read that found an entry exactly as old as the time-to-live, missed and
\* evicted it while another entry stayed in the cache
C6_Witness ==
    /\ config.enable_response_caching
    /\ last_op.name = "cache_get"
    /\ FoundEntry.present
    /\ FoundAge = cache_duration_seconds
    /\ last_op.result.kind = "miss"
    /\ ~client.cache[last_op.args.cache_key].present
    /\ \E other \in CacheKeys : client.cache[other].present

\* The last operation is a get_gps_location that contacted the server
Resolution == last_op.name = "get_gps_location" /\ last_op.requests # <<>>

\* The payload of the primary answer lacks the coordinate pair
LacksPair(data) == "latlong" \notin DOMAIN data \/ Len(data.latlong) < 2

\* The payload of the primary answer has a numeric field that is no number
UnparseableField(data) ==
    \/ \E f \in DOMAIN data \ {"latlong"} : ToNumber(data[f]).err # "none"
    \/ /\ "latlong" \in DOMAIN data
       /\ \E i \in 1..Len(data.latlong) :
             ToNumber(data.latlong[i]).err # "none"

\* The i-th request of the last operation is a history query whose first
\* segment has a parseable last entry
Parseable(i) ==
    LET q == last_op.requests[i]
    IN /\ q.endpoint = "positions"
       /\ HistoricalGpsLocation(client, 0, 1,
                                Wire(q.status_code, q.body)).err = "none"

\* The fix of such a query
FixOf(i) ==
    LET q == last_op.requests[i]
    IN HistoricalGpsLocation(client, 0, 1, Wire(q.status_code, q.body)).fix

\* C7: when the primary current-position response lacks the coordinate pair
\* or has an unparseable numeric field, get_gps_location neither returns a
\* fix built from that payload nor raises: it runs the historical fallback,
\* and returns a fix whenever some hours_back in 1..ceiling yields a parseable
\* record.
C7_MalformedPrimaryFallsBack ==
    ( /\ Resolution
      /\ last_op.requests[1].status_code = 200
      /\ last_op.requests[1].body.kind = "json"
      /\ \/ LacksPair(last_op.requests[1].body.value)
         \/ UnparseableField(last_op.requests[1].body.value) )
    => /\ Len(last_op.requests) >= 2
       /\ (\E i \in 2..Len(last_op.requests) : Parseable(i))
             => last_op.result.kind = "ok"

\* The history queries of the last fallback search: requests 2, 3, ...
Queries == 2..Len(last_op.requests)

C9_PoorAccuracyNotified ==
    ( /\ Resolution
      /\ last_op.result.kind = "ok"
      /\ last_op.result.value.uncertainty > gps_accuracy_threshold )
    => \E i \in 1..Len(last_op.callbacks) :
          last_op.callbacks[i] = "poor_gps_accuracy"

\* C10: every successful full get_device_status whose snapshot has
\* is_low_battery true, with battery monitoring enabled, triggers the
\* 'low_battery_alert' callback, whether the snapshot came from the network
\* or from the response cache.
C10_LowBatteryAlerted ==
    ( /\ last_op.name = "get_device_status"
      /\ ~last_op.args.partial
      /\ last_op.result.kind = "ok"
      /\ is_low_battery(last_op.result.value)
      /\ config.enable_battery_monitoring )
    => \E i \in 1..Len(last_op.callbacks) :
          last_op.callbacks[i] = "low_battery_alert"

\* C11: get_device_status(partial=True) issues exactly one request, the
\* hardware report, and never the tracker-record request; the snapshot it
\* returns has battery_level, hardware_status and timestamp from that report,
\* temperature_state and state UNKNOWN and battery_save_mode false; it never
\* creates or overwrites a response-cache entry.
C11_PartialFastPath ==
    [][ ( /\ ops' # ops
          /\ last_op'.name = "get_device_status"
          /\ last_op'.args.partial )
        => /\ Len(last_op'.requests) = 1
           /\ last_op'.requests[1].method = "GET"
           /\ last_op'.requests[1].endpoint = "device_hw_report"
           /\ client'.cache = client.cache
           /\ last_op'.result.kind = "ok" =>
                 LET report == last_op'.requests[1].body
                     hw_data == IF report.kind = "json" THEN report.value
                                ELSE EmptyObject
                 IN last_op'.result.value =
                       [battery_level |-> Get(hw_data, "battery_level", 0),
                        hardware_status |-> Get(hw_data, "hw_status", "unknown"),
                        timestamp |-> Get(hw_data, "time", 0),
                        temperature_state |-> "unknown",
                        state |-> "unknown",
                        battery_save_mode |-> FALSE] ]_vars

\* A partial status built from a report that names a temperature state, by a
\* client whose cache holds a full status
C11_Witness ==
    /\ last_op.name = "get_device_status"
    /\ last_op.args.partial
    /\ last_op.args.use_cache
    /\ last_op.result.kind = "ok"
    /\ Len(last_op.requests) = 1
    /\ last_op.requests[1].body = JsonBody(HwFull)
    /\ last_op.result.value.battery_level = 75
    /\ client.cache["device_status_False"].present

\* C12: for every battery_level in 0..100 and every tracker record,
\* is_low_battery holds iff level < 20, is_critical_battery iff level < 10,
\* the battery tier is excellent/good/fair/low/critical by the thresholds
\* 80/60/40/20, and needs_attention holds whenever is_low_battery holds; a
\* report with battery_level 15 has both is_low_battery and needs_attention.
C12_DerivedViews ==
    LET level == last_op.args.hw_data.battery_level
        views == last_op.result.value
    IN (last_op.name = "device_status_views" /\ level \in 0..100) =>
          /\ last_op.result.kind = "ok"
          /\ views.status.battery_level = level
          /\ views.is_low_battery <=> level < 20
          /\ views.is_critical_battery <=> level < 10
          /\ views.battery_state =
                CASE level >= 80 -> "excellent"
                  [] level \in 60..79 -> "good"
                  [] level \in 40..59 -> "fair"
                  [] level \in 20..39 -> "low"
                  [] level < 20 -> "critical"
          /\ views.is_low_battery => views.needs_attention
          /\ level = 15 => views.is_low_battery /\ views.needs_attention

\* A report with battery_level 15 and nothing else that asks for attention
C12_Witness ==
    /\ last_op.name = "device_status_views"
    /\ last_op.args.hw_data.battery_level = 15
    /\ last_op.args.hw_data.hw_status = "ok"
    /\ last_op.args.hw_data.temperature_state = "normal"
    /\ last_op.args.tracker_data.state = "active"
    /\ last_op.result.kind = "ok"
    /\ last_op.result.value.needs_attention

\* The _id of the first tracker of the list answered to _get_tracker_id, the
\* last GET /user/{id}/trackers of the initialization
FirstTrackerId(requests) ==
    LET lists == { i \in 1..Len(requests) : requests[i].endpoint = "trackers" }
        last  == CHOOSE i \in lists : \A j \in lists : j <= i
    IN requests[last].body.value.items[1]._id

HistoryAnswered ==
    /\ last_op.name = "get_location_history"
    /\ last_op.requests[1].status_code = 200
    /\ last_op.requests[1].body.kind = "json"

\* The points of all segments of that answer
AnsweredPoints == Flatten(last_op.requests[1].body.value.items)

\* A point with its coordinate pair, every numeric field a number and the
\* coordinates in range
WellFormed(point) ==
    /\ ~LacksPair(point)
    /\ ~UnparseableField(point)
    /\ ToNumber(point.latlong[1]).v \in -90..90
    /\ ToNumber(point.latlong[2]).v \in -180..180

WellFormedPoints == SelectSeq(AnsweredPoints, WellFormed)

\* C14: in get_location_history, every individually malformed point
\* (coordinate pair missing, coordinates invalid or out of range, or a numeric
\* field that cannot be parsed) is dropped from the result and never makes the
\* whole query fail; the returned locations are exactly the well-formed points
\* of all segments.
C14_MalformedPointsSkipped ==
    HistoryAnswered =>
        /\ last_op.result.kind = "ok"
        /\ LET locations == last_op.result.value.locations
           IN /\ Len(locations) = Len(WellFormedPoints)
              /\ \A i \in 1..Len(locations) :
                    \E j \in 1..Len(WellFormedPoints) :
                       locations[i] = FromApiData(WellFormedPoints[j]).fix

\* The last operation is a get_location_history that returned locations
HistoryReturned ==
    /\ last_op.name = "get_location_history"
    /\ last_op.result.kind = "ok"
    /\ last_op.result.value.locations # <<>>

\* The sum of the distances of the consecutive pairs of the locations
PairDistances(locations) ==
    SeqSum([i \in 1..(Len(locations) - 1) |->
                DistanceTo(locations[i], locations[i + 1])])

\* C15: for any input segments (unsorted, overlapping), the locations of the
\* returned LocationHistory are in non-decreasing timestamp order,
\* start_location and end_location are the points with the minimum and the
\* maximum timestamp, and with analytics requested total_distance equals the
\* sum of the distances of the consecutive pairs in that sorted order.
C15_SortedWithDistance ==
    HistoryReturned =>
        LET history   == last_op.result.value
            locations == history.locations
        IN /\ \A i, j \in 1..Len(locations) :
                 i <= j => locations[i].timestamp <= locations[j].timestamp
           /\ \E i \in 1..Len(locations) : history.start_location = locations[i]
           /\ \E i \in 1..Len(locations) : history.end_location = locations[i]
           /\ \A i \in 1..Len(locations) :
                 /\ history.start_location.timestamp <= locations[i].timestamp
                 /\ locations[i].timestamp <= history.end_location.timestamp
           /\ last_op.args.include_analytics
                 => history.total_distance = PairDistances(locations)

\* Points with the timestamps 100, 50, 150 in this order, across two segments,
\* give start 50, end 150 and the sum of the two pair distances
C15_Witness ==
    /\ HistoryReturned
    /\ last_op.args.include_analytics
    /\ last_op.requests[1].body.value.items = << <<HT100, HT50>>, <<HT150>> >>
    /\ last_op.result.value.start_location.timestamp = 50
    /\ last_op.result.value.end_location.timestamp = 150
    /\ last_op.result.value.location_count = 3
    /\ last_op.result.value.total_distance = 3

\* C16: for every non-empty result of get_location_history, with or without
\* analytics requested, time_span_hours equals (timestamp of the last location
\* - timestamp of the first location) / 3600 and never the requested
\* hours_back.
C16_TimeSpanFromTimestamps ==
    HistoryReturned =>
        LET history   == last_op.result.value
            locations == history.locations
        IN RatEq(history.time_span_hours,
                 Rat(locations[Len(locations)].timestamp
                     - locations[1].timestamp, 3600))

\* The speed of a consecutive pair: distance / elapsed seconds * 3.6, and 0
\* when no time elapsed
PairSpeed(prev, curr) ==
    LET elapsed == curr.timestamp - prev.timestamp
    IN IF elapsed = 0 THEN Rat(0, 1)
       ELSE Rat(36 * DistanceTo(prev, curr), 10 * elapsed)

PairSpeeds(locations) ==
    [i \in 1..(Len(locations) - 1) |->
        PairSpeed(locations[i], locations[i + 1])]

RatAdd(a, b) == Rat(a.num * b.den + b.num * a.den, a.den * b.den)

RECURSIVE RatSum(_)
RatSum(rats) ==
    IF rats = <<>> THEN Rat(0, 1)
    ELSE RatAdd(rats[1], RatSum(Tail(rats)))

\* C17: with analytics requested, each consecutive pair in sorted order
\* contributes a per-pair speed equal to its distance divided by its elapsed
\* seconds times 3.6 (0 when the elapsed seconds are 0); max_speed is the
\* maximum of these per-pair speeds and average_speed is their mean over all
\* pairs.
C17_PairSpeedAnalytics ==
    (HistoryReturned /\ last_op.args.include_analytics) =>
        LET history == last_op.result.value
            speeds  == PairSpeeds(history.locations)
            n       == Len(speeds)
            max     == Rat(history.max_speed, 1)
        IN IF n = 0
           THEN history.max_speed = 0 /\ RatEq(history.average_speed, Rat(0, 1))
           ELSE /\ \A i \in 1..n : ~RatLess(max, speeds[i])
                /\ \E i \in 1..n : RatEq(max, speeds[i])
                /\ RatEq(history.average_speed,
                         Rat(RatSum(speeds).num, n * RatSum(speeds).den))

\* The last operation is a get_location_history whose query was answered
\* without a well-formed point
NoValidPoints ==
    /\ last_op.name = "get_location_history"
    /\ last_op.requests[1].status_code = 200
    /\ HistoryAnswered => WellFormedPoints = <<>>

\* C18: when the history query yields zero valid points (no segments, empty
\* segments, or only malformed points), get_location_history raises nothing
\* and returns a result with location_count = 0, total_distance = max_speed =
\* average_speed = time_span_hours = 0 and start_location and end_location
\* undefined.
C18_EmptyHistoryIsSuccess ==
    NoValidPoints =>
        /\ last_op.result.kind = "ok"
        /\ LET history == last_op.result.value
           IN /\ history.location_count = 0
              /\ history.locations = <<>>
              /\ history.total_distance = 0
              /\ history.max_speed = 0
              /\ RatEq(history.average_speed, Rat(0, 1))
              /\ RatEq(history.time_span_hours, Rat(0, 1))
              /\ history.start_location = NoFix
              /\ history.end_location = NoFix

\* The last operation is an export_gps_data that wrote the file
Exported == last_op.name = "export_gps_data" /\ last_op.result.kind = "ok"

\* The points newly fetched by that export
FetchedPoints ==
    IF last_op.requests[1].body.kind = "json"
    THEN Flatten(last_op.requests[1].body.value.items)
    ELSE <<>>

\* The timestamps of the rows of a file
FileTimes(file) ==
    IF file.present THEN {file.rows[i].time.v : i \in 1..Len(file.rows)}
    ELSE {}

\* C19: after export_gps_data merges newly fetched points with a pre-existing
\* on-disk series, the exported series has strictly increasing timestamps
\* (sorted, one record per timestamp) and its set of timestamps is exactly the
\* union of the timestamps of the new and the existing records; exporting
\* again with no new points leaves the series unchanged.
C19_ExportMerge ==
    Exported =>
        /\ csv_file.present
        /\ \A i, j \in 1..Len(csv_file.rows) :
              i < j => csv_file.rows[i].time.v < csv_file.rows[j].time.v
        /\ FileTimes(csv_file) =
              {FetchedPoints[i].time.v : i \in 1..Len(FetchedPoints)}
              \cup FileTimes(last_op.args.existing)
        /\ (last_op.args.existing.present /\ FetchedPoints = <<>>)
              => csv_file = last_op.args.existing

\* An export that merged two new points into an existing series: one new
\* point shares its timestamp with an existing record, the other does not
C19_Witness ==
    /\ Exported
    /\ Len(FetchedPoints) = 2
    /\ FileTimes(last_op.args.existing) = {50, 100}
    /\ FetchedPoints[1].time.v = 150
    /\ FetchedPoints[2].time.v = 100
    /\ Len(csv_file.rows) = 3

\* The last operation is a request of the transport
Transported == last_op.name = "request"

\* What an attempt met is transient: no connection, a timeout, or an answer
\* 429 or 5xx
Transient(met) ==
    \/ met.kind \in {"ConnectionError", "Timeout"}
    \/ /\ met.kind = "response"
       /\ \/ met.wire.status_code = 429
          \/ met.wire.status_code \in 500..599

\* The attempts one request may make: the first and retry_attempts more
AttemptCeiling == last_op.args.retry_attempts + 1

\* C20: a request of any method (GET, POST, PUT, DELETE, PATCH alike) is
\* re-attempted only after a connection failure, a timeout or an HTTP 429/5xx
\* answer, never after a 401 or any other 4xx; the number of attempts for one
\* request never exceeds the configured attempt ceiling, and when the ceiling
\* is exhausted on transient network errors the caller receives an APIError.
C20_RetryPolicy ==
    Transported =>
        LET attempts == last_op.requests
            n        == Len(attempts)
        IN /\ \A i \in 1..(n - 1) : Transient(attempts[i].met)
           /\ n <= AttemptCeiling
           /\ Transient(attempts[n].met) => n = AttemptCeiling
           /\ (n = AttemptCeiling /\ Transient(attempts[n].met))
                 => last_op.result.kind = "APIError"

\* Both transports have classified the response the session holds
BothHandled ==
    outcome # NoOutcome /\ last_op.name = "async_handle_response"

\* C21: for every wire response (status code, Retry-After header, body empty,
\* JSON or not JSON, content length known or unknown),
\* HTTPClient._handle_response and AsyncHTTPClient._handle_response produce
\* the same outcome: the same parsed result or the same error class with the
\* same status code.
C21_SyncAsyncEquivalence ==
    BothHandled =>
        /\ last_op.result.kind = outcome.kind
        /\ last_op.result.status_code = outcome.status_code
        /\ last_op.result.data = outcome.data

\* The connection states between which one step of the radio client moves
StateChange == <<ble.connection_state, ble'.connection_state>>

\* C22: over any sequence of connect, disconnect, get_battery_level and
\* send_command calls on a TractiveBLEClient, every change of the connection
\* state follows DISCONNECTED -> CONNECTING -> CONNECTED -> (DISCONNECTED |
\* ERROR): CONNECTING is entered only from DISCONNECTED, CONNECTED only from
\* CONNECTING, DISCONNECTED only from CONNECTED, ERROR only from CONNECTING or
\* CONNECTED, and RECONNECTING is never entered.
C22_ConnectionStateMachine ==
    [][StateChange[1] # StateChange[2] =>
          StateChange \in {<<DISCONNECTED, CONNECTING>>,
                           <<CONNECTING, CONNECTED>>,
                           <<CONNECTING, ERROR>>,
                           <<CONNECTED, DISCONNECTED>>,
                           <<CONNECTED, ERROR>>}]_vars

\* The last call moved the radio client to CONNECTED or to DISCONNECTED
ConnectionChanged ==
    /\ last_op.name \in {"connect", "disconnect"}
    /\ last_op.args.after.connection_state \in {CONNECTED, DISCONNECTED}
    /\ last_op.args.after.connection_state
          # last_op.args.before.connection_state

\* The address a connect or disconnect is about
ChangedAddress ==
    IF last_op.name = "connect" THEN last_op.args.call.device_address
    ELSE last_op.args.before.device_address

\* C23: on every transition of TractiveBLEClient to CONNECTED or to
\* DISCONNECTED, each registered callback is invoked exactly once, in
\* registration order, with (connected, address); what a callback raises does
\* not keep the later callbacks from being invoked and changes neither the
\* resulting connection state nor what the call returns.
C23_ObserverCallbacks ==
    ConnectionChanged =>
        /\ Len(last_op.callbacks)
              = Len(last_op.args.before.connection_callbacks)
        /\ \A i \in 1..Len(last_op.callbacks) :
              /\ last_op.callbacks[i].callback = i
              /\ last_op.callbacks[i].connected
                    = (last_op.args.after.connection_state = CONNECTED)
              /\ last_op.callbacks[i].address = ChangedAddress
        /\ last_op.result.kind = "ok"
        /\ last_op.name = "connect" => last_op.result.value = TRUE
        /\ last_op.name = "disconnect" =>
              last_op.result.value
                 = (/\ last_op.args.before.backend.connected
                    /\ ~last_op.args.after.backend.connected)

\* A disconnect notified two callbacks of which the first raised
C23_Witness ==
    /\ ConnectionChanged
    /\ last_op.name = "disconnect"
    /\ Len(last_op.callbacks) = 2
    /\ last_op.callbacks[1].raised
    /\ ~last_op.callbacks[2].raised

\* The last call was a read or a command on a client that was not CONNECTED
NotConnectedCall ==
    /\ last_op.name \in {"get_battery_level", "send_command"}
    /\ last_op.args.before.connection_state # CONNECTED

\* The last call was a command, on a CONNECTED client, whose key is not in
\* the command table
UnknownCommandCall ==
    /\ last_op.name = "send_command"
    /\ last_op.args.before.connection_state = CONNECTED
    /\ CommandKey(last_op.args.call.command, last_op.args.call.state)
          \notin BLE_COMMANDS

\* C24: get_battery_level and send_command invoked in any state other than
\* CONNECTED raise BLEError "Not connected to any device" without a call of
\* the backend, without a change of the connection state and without a
\* connect attempt; while CONNECTED, send_command with a command outside the
\* command table raises BLEError without a characteristic write.
C24_NotConnectedFailsFast ==
    /\ NotConnectedCall =>
          /\ last_op.result.kind = "BLEError"
          /\ last_op.result.cause = "Not connected to any device"
          /\ last_op.requests = <<>>
          /\ last_op.args.after = last_op.args.before
    /\ UnknownCommandCall =>
          /\ last_op.result.kind = "BLEError"
          /\ last_op.requests = <<>>
          /\ last_op.args.after = last_op.args.before

\* A read was refused after a failed connect, with the client in ERROR
C24_Witness ==
    /\ NotConnectedCall
    /\ last_op.name = "get_battery_level"
    /\ ble.connection_state = ERROR

\* Every connect that was called has returned, the last one with True
ConnectsCompleted ==
    /\ last_op.name = "connect"
    /\ ble.pending = {}
    /\ ble.connection_state = CONNECTED

\* C27: when connect is invoked on a TractiveBLEClient while another connect
\* is suspended, no second connect of the backend is started; after the calls
\* have completed, the device_address of the client, the device the backend
\* is connected to and the address the callbacks were notified with agree.
C27_SingleInFlightConnect ==
    /\ Cardinality(ble.pending) <= 1
    /\ ConnectsCompleted =>
          /\ ble.device_address = last_op.args.call.device_address
          /\ ble.backend.client = ble.device_address
          /\ ble.device_address \in ble.backend.links
          /\ \A i \in 1..Len(last_op.callbacks) :
                last_op.callbacks[i].address = ble.device_address

\* No call of the radio client is suspended
AtRest == ble.pending = {}

\* C30: after any series of connect and disconnect calls made one after the
\* other, backend failures included, TractiveBLEClient reports is_connected
\* and a device_address exactly when the connected flag of its backend is set
\* for that address; while the client is DISCONNECTED or ERROR the backend
\* holds no open connection.
C30_WrapperBackendAgreement ==
    AtRest =>
        /\ IsConnected(ble) <=>
              /\ ble.backend.connected
              /\ ble.backend.client = ble.device_address
        /\ DeviceAddress(ble) # NoAddress <=> IsConnected(ble)
        /\ ble.connection_state \in {DISCONNECTED, ERROR} =>
              ble.backend.links = {}

\* The last operation was a send_command that returned
CommandSent == last_op.name = "send_command" /\ last_op.result.kind = "ok"

\* C25: every successful TractiveClient.send_command issues exactly one HTTP
\* request and sends it with POST, for the generic commands (LED control,
\* buzzer, live tracking) as well as for the battery saver.
C25_CommandsUsePost ==
    CommandSent =>
        /\ Len(last_op.requests) = 1
        /\ last_op.requests[1].method = "POST"

\* This step is a call of get_gps_location
Resolves == ops' = ops + 1 /\ last_op'.name = "get_gps_location"

\* The age in seconds of the fix the client holds before the step
StoredFixAge == clock - client.last_gps_location.timestamp

\* C26: when use_cache is set and the previously resolved fix is younger than
\* max_age, get_gps_location returns that same fix, issues no request and
\* leaves the stored fix and the request counter unchanged; when the stored
\* fix is older than max_age, or there is none, the first request goes to the
\* primary endpoint.
C26_ResolverShortCircuit ==
    [][Resolves =>
          /\ ( /\ last_op'.args.use_cache
               /\ client.last_gps_location # NoFix
               /\ StoredFixAge < 60 * last_op'.args.max_age_minutes )
             => /\ last_op'.result = Value(client.last_gps_location)
                /\ last_op'.requests = <<>>
                /\ client'.last_gps_location = client.last_gps_location
                /\ client'.requests_made = client.requests_made
          /\ ( \/ client.last_gps_location = NoFix
               \/ StoredFixAge > 60 * last_op'.args.max_age_minutes )
             => /\ last_op'.requests # <<>>
                /\ last_op'.requests[1].endpoint = "device_pos_report"]_vars

\* A resolution was answered from the stored fix after time had passed
C26_Witness ==
    /\ last_op.name = "get_gps_location"
    /\ last_op.args.use_cache
    /\ last_op.requests = <<>>
    /\ last_op.result = Value(client.last_gps_location)
    /\ clock > StartClock

\* The last operation was monitor_location
Monitoring == last_op.name = "monitor_location"

\* C28: with max_iterations = n, monitor_location polls the location at most
\* n times and has returned once n iterations have run their course, whether
\* the polls and the callback succeed or raise.
C28_MonitorBound ==
    Monitoring =>
        /\ last_op.result.value.polls <= last_op.args.max_iterations
        /\ Len(last_op.args.course) >= last_op.args.max_iterations =>
              last_op.result.value.returned

\* The last operation authenticated, or tried to
AuthenticationRan == last_op.name \in {"initialize", "refresh_authentication"}

\* C29: after any sequence of initialization and refresh_authentication
\* calls, is_authenticated is true only if the HTTP client carries a bearer
\* token, the one the client holds, that the list-trackers call has not
\* rejected; when the authentication ended with AuthenticationError the
\* client does not report itself authenticated.
C29_AuthenticationConsistent ==
    /\ IsAuthenticated(client) =>
          /\ client.http_token # NoToken
          /\ client.http_token = client.access_token
          /\ client.http_token \notin rejected
    /\ ( /\ AuthenticationRan
         /\ last_op.result.kind = "AuthenticationError" )
       => ~IsAuthenticated(client)

====
